---- MODULE Spec2Model ----
(***************************************************************************)
(* Discovery engine of network-vis: the entity store (NetworkState), the   *)
(* Orchestrator's handlers (scanner results, mDNS callback, lifecycle      *)
(* tick, packet enrichment flush, full-state request), the device          *)
(* classifier and the part of the packet pipeline that feeds the flush.    *)
(*                                                                         *)
(* JavaScript objects are modelled as functions from field names to        *)
(* values, so that the spread merges {...existing, ...node} of the source  *)
(* are merges of functions (node @@ existing).  A key that is present      *)
(* with the value undefined holds Undefined.  Date.now() is the variable   *)
(* now, which only the action Advance changes: every handler runs at one   *)
(* instant.                                                                *)
(***************************************************************************)
EXTENDS Integers, Sequences, FiniteSets, TLC

\* ---- program constants (LIFECYCLE) ----
staleAfterMs == 30000
expiredAfterMs == 60000
removeAfterMs == 90000

\* ---- bounds of the model ----
MaxNow == 120000
MaxPackets == 1
MaxProcs == 1
\* the clock advances between handlers by one of these delays (ms)
Delays == {30000}

Undefined == "undefined"
NoPub == [type |-> "none"]
NoEvent == [nodeId |-> "none"]
NoStart == [iface |-> "none"]
NoResult == [slot |-> 0]
\* the remote hosts of the sockets lsof shows
RemoteHosts == {"93.184.216.34", "10.0.0.9"}
\* no consumer is mounted
NoView == [mounted |-> FALSE]

\* ---- the entities of the modelled environment ----
HostId == "this-device"
HostIp == "192.168.1.2"
LanId == "lan-aa:bb:cc:dd:ee:ff"
LanIp == "192.168.1.42"
BonjourId == "bonjour-hue-Hue-Bridge"
LanIds == {LanId}
BonjourIds == {BonjourId}
\* a service the Host itself advertises: its address is the Host's
OwnServiceId == "bonjour-airplay-host"
NonHostIds == LanIds \cup BonjourIds
Ips == {HostIp, LanIp}
\* the captured flows: <<source, destination>>
Flows == {<<HostIp, LanIp>>, <<LanIp, HostIp>>}
Protocols == {"TLS"}
FrameLens == {1500}

VARIABLES
  now,              \* Date.now()
  started,          \* Orchestrator.start() has run its synchronous prefix
  nodes,            \* NetworkState.nodes : id -> node object
  edges,            \* NetworkState.edges : edge id -> edge object
  discoveredNodes,  \* BonjourScanner.discoveredNodes : id -> node object
  discoveredEdges,  \* BonjourScanner.discoveredEdges : edge id -> edge object
  isCapturing,      \* PacketScanner._isCapturing
  proc,             \* PacketScanner.proc : 0 (null) or the pid of the handle
  procs,            \* OS side: pid -> "running" | "terminating" for the tshark processes alive
  spawned,          \* number of tshark processes spawned so far
  killTimer,        \* PacketScanner.killTimer : 0 (null) or the pid it will SIGKILL
  enrichmentTimer,  \* PacketScanner.enrichmentTimer is armed
  currentOnUpdate,  \* PacketScanner.currentOnUpdate is set
  thisDeviceIps,    \* PacketScanner.thisDeviceIps
  protocolsByIp,    \* PacketScanner.protocolsByIp : ip -> (protocol -> count)
  bytesByIp,        \* PacketScanner.bytesByIp
  packetsByIp,      \* PacketScanner.packetsByIp
  eventSeq,         \* PacketScanner.eventSeq
  pub,              \* the last payload handed to sendToRenderer / returned by getFullState
  beforeClassify,   \* history: the store's nodes as the last handler had them right before it
                    \* ran classify() (the nodes it left, when it ran no classify())
  lastObserved,     \* history: id -> time of the last collector result holding the id, for the
                    \* ids in the store (-1: not in the store)
  removedPending,   \* history: ids listed in removed[] and not re-observed since
  lifeFirst,        \* history: id -> firstSeen first published since the entity was created (-1: none)
  everFirst,        \* history: id -> firstSeen of the first payload that ever held the id (-1: none)
  view,             \* useNetworkState: nodeMapRef and edgeMapRef of the mounted consumer
  lastFull          \* history: the last full_state the mounted consumer was handed

VARIABLES
  rates,            \* TrafficScanner.rates : connection id -> rate object
  prevSample,       \* TrafficScanner.prevSample : connection id -> byte counters
  prevTimestamp     \* TrafficScanner.prevTimestamp (-1: the initial 0; Date.now() is positive
                    \* while the clock of this model starts at 0)

VARIABLES
  paused,           \* Orchestrator.paused
  timers,           \* Orchestrator.timers holds the intervals start() registered
  browsing,         \* BonjourScanner.browsers holds the browsers start() created
  inflight,         \* the runScanner() calls that wait for their scan(): [scanner, origin]
  windowReady,      \* index.ts windowReady
  scannerReady,     \* index.ts scannerReady
  stopCalled,          \* history: Orchestrator.stop() has been called
  scanNowCalled     \* history: scanNow() has been called since the last pause() / resume()

VARIABLES
  pendingStarts,    \* startPacketCapture() calls that are between their awaits and start()
  available,        \* PacketScanner._available : "null" (not checked yet), "true", "false"
  hasPermission,    \* PacketScanner._hasPermission : "null", "true", "false"
  lastError,        \* PacketScanner.lastError
  drainTimer,       \* PacketScanner.drainTimer : 0 (null) or the interval it holds
  drainIntervals,   \* event loop side: the drain intervals that are set and not cleared
  drained,          \* the drain intervals that cannot fire any more in the running 100 ms
  onEventCallback,  \* PacketScanner.onEventCallback is set
  events,           \* PacketScanner.events : the ring, as the sequence of the event numbers
  pendingEvents,    \* PacketScanner.pendingEvents
  delivered,        \* history: the events handed to onEventCallback, in order
  deliveredInPeriod,\* history: how many of them in the running 100 ms
  deniedPid         \* history: the process whose "permission denied" line was handled since
                    \* the last start() (0: none)

VARIABLES
  activeInterface,  \* PacketScanner.activeInterface
  ipIndex,          \* PacketScanner.ipIndex : ip -> entity id
  lastEvent,        \* history: srcIp, dstIp and nodeId of the event parseLine() built last
  hardKilled,       \* history: the tshark processes that were sent SIGKILL
  failedCalls,      \* history: the runScanner() calls whose scan() was rejected
  startArgs         \* history: the argument, the interface list and the default interface of
                    \* the startPacketCapture() call that continued last

VARIABLES
  dnsCache,         \* ConnectionsScanner.dnsCache : remote host -> hostname or null
  pendingLookups,   \* ConnectionsScanner.pendingLookups
  lookups,          \* event loop side: remote host -> the reverse() calls not settled yet
  finishing,        \* event loop side: remote host -> the settled reverse() calls whose
                    \* finally() handler has not run yet
  connScans,        \* the ConnectionsScanner.scan() calls in progress: slot -> its position
                    \* and what it has parsed
  lastResult        \* history: the result of the scan() that returned last, with the cache
                    \* as it was when that scan parsed

VARIABLES
  osSignals,        \* history: the signals of the infer() call that returned last
  osResult,         \* history: what that infer() call returned
  ttls,             \* history: the TTL samples of the gatherTtlSignals() call that returned last
  medianTtl,        \* history: the medianTtl that call computed (0 when it computed none)
  ttlSignals        \* history: the signals that call returned

storeVars == <<nodes, edges>>
\* the reverse lookups of the Socket collector
dnsVars == <<dnsCache, pendingLookups, lookups, finishing, connScans, lastResult>>
\* what the later specifications follow
\* the OS fingerprinting
osVars == <<osSignals, osResult, ttls, medianTtl, ttlSignals>>
lateVars == <<dnsVars, osVars>>
\* the capture session and the failures of scans
auxVars == <<activeInterface, ipIndex, lastEvent, hardKilled, failedCalls, startArgs, lateVars>>
captureVars == <<pendingStarts, available, hasPermission, lastError, drainTimer,
                 drainIntervals, drained, onEventCallback, events, pendingEvents, delivered,
                 deliveredInPeriod, deniedPid>>
controlVars == <<paused, timers, browsing, inflight, windowReady, scannerReady, stopCalled,
                 scanNowCalled>>
trafficVars == <<rates, prevSample, prevTimestamp>>
\* what the store specification does not follow
restVars == <<trafficVars, controlVars, captureVars, auxVars>>
bonjourVars == <<discoveredNodes, discoveredEdges>>
procVars == <<isCapturing, proc, procs, spawned, killTimer, enrichmentTimer, currentOnUpdate>>
aggVars == <<protocolsByIp, bytesByIp, packetsByIp, eventSeq>>
packetVars == <<procVars, thisDeviceIps, aggVars>>
histVars == <<beforeClassify, lastObserved, removedPending, lifeFirst, everFirst, view, lastFull>>

vars == <<now, started, storeVars, bonjourVars, packetVars, pub, histVars, restVars>>

Empty == <<>>

\* Map.set(k, v)
Put(m, k, v) == [x \in (DOMAIN m) \cup {k} |-> IF x = k THEN v ELSE m[x]]

\* Map.delete(k)
\* (faulty variant: the delete is lost)
DeleteNodeLost(m, k) == m
DeleteNode(m, k) == [x \in (DOMAIN m) \ {k} |-> m[x]]

Has(obj, f) == f \in DOMAIN obj

\* ---- NetworkState ----

\* (faulty variant: firstSeen of the incoming object is kept)
upsertNodeKeepsIncomingFirstSeen(ns, node, t) ==
  IF node.id \in DOMAIN ns
    THEN Put(ns, node.id, [lastSeen |-> t, status |-> "active"] @@ node @@ ns[node.id])
    ELSE Put(ns, node.id, [firstSeen |-> t, lastSeen |-> t, status |-> "active"] @@ node)

\* (faulty variant: lastSeen of the incoming object is kept)
upsertNodeKeepsIncomingLastSeen(ns, node, t) ==
  IF node.id \in DOMAIN ns
    THEN Put(ns, node.id,
             [firstSeen |-> ns[node.id].firstSeen, status |-> "active"] @@ node @@ ns[node.id])
    ELSE Put(ns, node.id, [firstSeen |-> t, lastSeen |-> t, status |-> "active"] @@ node)

\* (faulty variant: the existing entity is replaced, not merged)
upsertNodeDropsExisting(ns, node, t) ==
  IF node.id \in DOMAIN ns
    THEN Put(ns, node.id,
             [firstSeen |-> ns[node.id].firstSeen, lastSeen |-> t, status |-> "active"] @@ node)
    ELSE Put(ns, node.id, [firstSeen |-> t, lastSeen |-> t, status |-> "active"] @@ node)

upsertNode(ns, node, t) ==
  IF node.id \in DOMAIN ns
    THEN Put(ns, node.id,
             [firstSeen |-> ns[node.id].firstSeen, lastSeen |-> t, status |-> "active"]
               @@ node @@ ns[node.id])
    ELSE Put(ns, node.id, [firstSeen |-> t, lastSeen |-> t, status |-> "active"] @@ node)

patchNode(ns, id, fields) ==
  IF id \notin DOMAIN ns THEN ns ELSE Put(ns, id, fields @@ ns[id])

\* (faulty variant: an edge that is in the store is kept as it is)
upsertEdgeKeepsFirst(es, edge) == IF edge.id \in DOMAIN es THEN es ELSE Put(es, edge.id, edge)

upsertEdge(es, edge) == Put(es, edge.id, edge)

\* (faulty variant: only the source is compared)
removeEdgesForNodeSourceOnly(es, nodeId) ==
  [id \in {i \in DOMAIN es : es[i].source # nodeId} |-> es[id]]

removeEdgesForNode(es, nodeId) ==
  [id \in {i \in DOMAIN es : ~(es[i].source = nodeId \/ es[i].target = nodeId)} |-> es[id]]

\* (faulty variant: the Host is not exempt)
tickNodeNoExemption(node, t) ==
  LET age == t - node.lastSeen IN
  IF age > removeAfterMs THEN "remove"
  ELSE IF age > expiredAfterMs /\ node.status # "expired" THEN "expired"
  ELSE IF age > staleAfterMs /\ node.status # "stale" /\ node.status # "expired" THEN "stale"
  ELSE "keep"

\* (faulty variant: no entry is ever removed)
tickNodeNeverRemoves(node, t) ==
  LET age == t - node.lastSeen IN
  IF node.signalType = "this_device" THEN "keep"
  ELSE IF age > expiredAfterMs /\ node.status # "expired" THEN "expired"
  ELSE IF age > staleAfterMs /\ node.status # "stale" /\ node.status # "expired" THEN "stale"
  ELSE "keep"

\* (faulty variant: the remove threshold is inclusive)
tickNodeOffByOne(node, t) ==
  LET age == t - node.lastSeen IN
  IF node.signalType = "this_device" THEN "keep"
  ELSE IF age >= removeAfterMs THEN "remove"
  ELSE IF age > expiredAfterMs /\ node.status # "expired" THEN "expired"
  ELSE IF age > staleAfterMs /\ node.status # "stale" /\ node.status # "expired" THEN "stale"
  ELSE "keep"

\* the body of tick's loop for one entry: what happens to the node
tickNode(node, t) ==
  LET age == t - node.lastSeen IN
  IF node.signalType = "this_device" THEN "keep"
  ELSE IF age > removeAfterMs THEN "remove"
  ELSE IF age > expiredAfterMs /\ node.status # "expired" THEN "expired"
  ELSE IF age > staleAfterMs /\ node.status # "stale" /\ node.status # "expired" THEN "stale"
  ELSE "keep"

RECURSIVE tickLoop(_, _, _)
\* tick's loop over the entries still to visit (todo), acc = {nodes, edges, removed, statusChanged}
tickLoop(acc, todo, t) ==
  IF todo = {} THEN acc
  ELSE
    LET id == CHOOSE x \in todo : TRUE
        node == acc.nodes[id]
        what == tickNode(node, t)
        next ==
          IF what = "remove"
            THEN [nodes |-> DeleteNode(acc.nodes, id),
                  edges |-> removeEdgesForNode(acc.edges, id),
                  removed |-> acc.removed \cup {id},
                  statusChanged |-> acc.statusChanged]
          ELSE IF what = "keep" THEN acc
          ELSE [acc EXCEPT !.nodes = Put(acc.nodes, id, [status |-> what] @@ node),
                           !.statusChanged = TRUE]
    IN tickLoop(next, todo \ {id}, t)

\* (faulty variant: a status change is always reported)
tickReportsChange(ns, es, t) ==
  [tickLoop([nodes |-> ns, edges |-> es, removed |-> {}, statusChanged |-> FALSE],
            DOMAIN ns, t) EXCEPT !.statusChanged = TRUE]

tick(ns, es, t) ==
  tickLoop([nodes |-> ns, edges |-> es, removed |-> {}, statusChanged |-> FALSE],
           DOMAIN ns, t)

getNodes(ns) == ns
getEdges(es) == es


\* ---- scanners: the objects a scan produces ----

EdgeId(id) == "edge-this-" \o id

\* ArpScanner.scan: one table line for the neighbour (vendor lookup fails: vendor undefined,
\* so the name is the IP)
ArpNode(id, gw, t) ==
  [id |-> id, signalType |-> "lan", name |-> LanIp, status |-> "active",
   firstSeen |-> t, lastSeen |-> t, mac |-> "aa:bb:cc:dd:ee:ff", ip |-> LanIp,
   interface |-> "en0", isGateway |-> gw, vendor |-> Undefined]

ArpEdge(id, gw) ==
  [id |-> EdgeId(id), source |-> HostId, target |-> id,
   type |-> IF gw THEN "gateway" ELSE "connected_to"]

\* BonjourScanner.browseType: the node and the edge of one service callback
BonjourNode(id, t) ==
  [id |-> id, signalType |-> "bonjour", name |-> "Hue Bridge (hue)", status |-> "active",
   firstSeen |-> t, lastSeen |-> t, ip |-> IF id = OwnServiceId THEN HostIp ELSE LanIp,
   serviceType |-> "_hue._tcp",
   port |-> 443, host |-> "hue-bridge.local"]

BonjourEdge(id) ==
  [id |-> EdgeId(id), source |-> HostId, target |-> id, type |-> "hosts_service"]

\* Orchestrator.seedThisDevice: the Host object
ThisDeviceNode(t) ==
  [id |-> HostId, signalType |-> "this_device", name |-> "host.local", status |-> "active",
   firstSeen |-> t, lastSeen |-> t, hostname |-> "host.local",
   interfaces |-> <<[name |-> "en0", ip |-> HostIp, mac |-> "00:11:22:33:44:55"]>>,
   ip |-> HostIp, mac |-> "00:11:22:33:44:55"]

\* ---- DeviceFingerprinter ----

\* the profile database (device-profiles.json), in file order
profiles ==
  << [id |-> "philips-hue", deviceType |-> "smart-home", productName |-> "Philips Hue",
      iconKey |-> "lightbulb", vendorPatterns |-> {"philips"},
      serviceTypes |-> {"_hue._tcp"}, hostnamePatterns |-> {}],
     [id |-> "generic-printer", deviceType |-> "printer", productName |-> "Printer",
      iconKey |-> "printer", vendorPatterns |-> {},
      serviceTypes |-> {"_ipp._tcp", "_printer._tcp"}, hostnamePatterns |-> {"printer"}] >>

\* String.includes / RegExp.test on the lower-cased strings of this environment:
\* the pairs <<string, pattern>> for which the test succeeds
Contains == {<<"philips electronics nederland bv", "philips">>}
ToLower(str) ==
  IF str = "Philips Electronics Nederland BV" THEN "philips electronics nederland bv" ELSE str
StrMatches(str, pattern) == <<ToLower(str), pattern>> \in Contains

\* name.replace(/\s*\([^)]+\)\s*$/, '').trim()
CleanName(name) == IF name = "Hue Bridge (hue)" THEN "Hue Bridge" ELSE name

\* the score of one profile in match()
Score(profile, vendor, serviceTypes, hostname) ==
  (IF profile.vendorPatterns # {} /\ vendor # Undefined
      /\ \E pat \in profile.vendorPatterns : StrMatches(vendor, pat) THEN 1 ELSE 0)
  + (IF serviceTypes # {} /\ profile.serviceTypes \cap serviceTypes # {} THEN 1 ELSE 0)
  + (IF hostname # Undefined
      /\ \E pat \in profile.hostnamePatterns : StrMatches(hostname, pat) THEN 1 ELSE 0)

RECURSIVE matchLoop(_, _, _, _, _, _)
\* match()'s loop from profile i on: the index of the best profile (0: none)
matchLoop(i, bestScore, best, vendor, serviceTypes, hostname) ==
  IF i > Len(profiles) THEN best
  ELSE LET sc == Score(profiles[i], vendor, serviceTypes, hostname) IN
       IF sc > bestScore
         THEN matchLoop(i + 1, sc, i, vendor, serviceTypes, hostname)
         ELSE matchLoop(i + 1, bestScore, best, vendor, serviceTypes, hostname)

match(vendor, serviceTypes, hostname) == matchLoop(1, 0, 0, vendor, serviceTypes, hostname)

\* enrich(): the bonjour index by IP
servicesByIp(bonjourNodes, ip) ==
  {b.serviceType : b \in {x \in bonjourNodes : Has(x, "ip") /\ x.ip = ip}}
serviceNamesByIp(bonjourNodes, ip) ==
  LET at == {x \in bonjourNodes : Has(x, "ip") /\ x.ip = ip /\ CleanName(x.name) # ""} IN
  IF at = {} THEN Undefined ELSE CleanName((CHOOSE x \in at : TRUE).name)

Truthy(obj, f) == Has(obj, f) /\ obj[f] # Undefined /\ obj[f] # ""

\* enrich() for one LAN node: the node itself when nothing is added
enrichOne(node, bonjourNodes) ==
  IF Truthy(node, "deviceType") THEN node
  ELSE
    LET hasIp == Truthy(node, "ip")
        serviceTypes == IF hasIp THEN servicesByIp(bonjourNodes, node.ip) ELSE {}
        serviceName == IF hasIp THEN serviceNamesByIp(bonjourNodes, node.ip) ELSE Undefined
        m == match(node.vendor, serviceTypes, node.name)
    IN IF m = 0 THEN node
       ELSE [deviceType |-> profiles[m].deviceType,
             productName |-> IF serviceName # Undefined THEN serviceName
                             ELSE profiles[m].productName,
             iconKey |-> profiles[m].iconKey] @@ node

\* ---- Orchestrator ----

RECURSIVE upsertAll(_, _, _)
\* applyResult's loop over result.nodes
upsertAll(ns, result, t) ==
  IF result = {} THEN ns
  ELSE LET n == CHOOSE x \in result : TRUE IN upsertAll(upsertNode(ns, n, t), result \ {n}, t)

RECURSIVE upsertEdges(_, _)
\* applyResult's loop over result.edges
upsertEdges(es, result) ==
  IF result = {} THEN es
  ELSE LET e == CHOOSE x \in result : TRUE IN upsertEdges(upsertEdge(es, e), result \ {e})

\* (faulty variant: only one of the values)
ValuesOfOne(m) == IF DOMAIN m = {} THEN {} ELSE {m[CHOOSE k \in DOMAIN m : TRUE]}

Values(m) == {m[k] : k \in DOMAIN m}

\* (faulty variant: every LAN node is upserted)
classifyUpsertsAll(ns, t) == upsertAll(ns, {n \in Values(ns) : n.signalType = "lan"}, t)

\* classify(): the store's nodes afterwards
classify(ns, t) ==
  LET lanNodes == {n \in Values(ns) : n.signalType = "lan"}
      bonjourNodes == {n \in Values(ns) : n.signalType = "bonjour"}
      changed == {enrichOne(n, bonjourNodes) : n \in {x \in lanNodes : enrichOne(x, bonjourNodes) # x}}
  IN IF lanNodes = {} THEN ns ELSE upsertAll(ns, changed, t)


\* ---- PacketScanner ----

\* refreshIndex(): the Host's interface addresses (thisDeviceIps)
refreshIndex(ns) ==
  UNION {{ns[id].interfaces[i].ip : i \in {j \in DOMAIN ns[id].interfaces :
                                            ns[id].interfaces[j].ip # ""}}
         : id \in {x \in DOMAIN ns : ns[x].signalType = "this_device"}}

\* (faulty variant: the Host's addresses are counted as well)
RECURSIVE aggregateAll(_, _, _, _)
aggregateAll(agg, ips, proto, len) ==
  IF ips = <<>> THEN agg
  ELSE
    LET ip == Head(ips)
        protos == IF ip \in DOMAIN agg.protocols THEN agg.protocols[ip] ELSE Empty
        count == IF proto \in DOMAIN protos THEN protos[proto] ELSE 0
        bytes == IF ip \in DOMAIN agg.bytes THEN agg.bytes[ip] ELSE 0
        packets == IF ip \in DOMAIN agg.packets THEN agg.packets[ip] ELSE 0
    IN aggregateAll([protocols |-> Put(agg.protocols, ip, Put(protos, proto, count + 1)),
                     bytes |-> Put(agg.bytes, ip, bytes + len),
                     packets |-> Put(agg.packets, ip, packets + 1)],
                    Tail(ips), proto, len)

RECURSIVE aggregate(_, _, _, _)
\* parseLine's loop over [srcIp, dstIp]: agg = {protocols, bytes, packets}
aggregate(agg, ips, proto, len) ==
  IF ips = <<>> THEN agg
  ELSE
    LET ip == Head(ips)
        protos == IF ip \in DOMAIN agg.protocols THEN agg.protocols[ip] ELSE Empty
        count == IF proto \in DOMAIN protos THEN protos[proto] ELSE 0
        bytes == IF ip \in DOMAIN agg.bytes THEN agg.bytes[ip] ELSE 0
        packets == IF ip \in DOMAIN agg.packets THEN agg.packets[ip] ELSE 0
    IN IF ip \in thisDeviceIps THEN aggregate(agg, Tail(ips), proto, len)
       ELSE aggregate([protocols |-> Put(agg.protocols, ip, Put(protos, proto, count + 1)),
                       bytes |-> Put(agg.bytes, ip, bytes + len),
                       packets |-> Put(agg.packets, ip, packets + 1)],
                      Tail(ips), proto, len)

\* stop(): what it leaves of {proc, procs, killTimer}; the flags and timers are cleared
stopProcs == IF proc # 0 /\ proc \in DOMAIN procs THEN Put(procs, proc, "terminating") ELSE procs
stopKillTimer == IF proc # 0 THEN proc ELSE 0

\* ---- payloads ----

\* the copy of the store's nodes that goes over IPC: node.protocols is the aggregator's own
\* object (a reference), whose current content is what is serialised
Serialize(ns) ==
  [id \in DOMAIN ns |->
     IF Has(ns[id], "protocols")
       THEN [protocols |-> protocolsByIp[ns[id].protocols.ref]] @@ ns[id]
       ELSE ns[id]]

RateFields == {"bytesPerSec", "bytesInPerSec", "bytesOutPerSec"}

\* (faulty variant: every entity gets the rate of some key)
enrichNodesAnyRate(ns, rs) ==
  IF DOMAIN rs = {} THEN ns
  ELSE [id \in DOMAIN ns |-> rs[CHOOSE k \in DOMAIN rs : TRUE] @@ ns[id]]

\* enrichNodes(): { ...node, ...rate } for the nodes whose id is a key of the rates
enrichNodes(ns, rs) ==
  IF DOMAIN rs = {} THEN ns
  ELSE [id \in DOMAIN ns |-> IF id \in DOMAIN rs THEN rs[id] @@ ns[id] ELSE ns[id]]

\* enrichEdges(): { ...edge, ...rate } with the rate of the target, else of the source
enrichEdges(es, rs) ==
  IF DOMAIN rs = {} THEN es
  ELSE [e \in DOMAIN es |->
          IF es[e].target \in DOMAIN rs THEN rs[es[e].target] @@ es[e]
          ELSE IF es[e].source \in DOMAIN rs THEN rs[es[e].source] @@ es[e]
          ELSE es[e]]

\* (faulty variant: the message is composed from the store as it was before the handler)
PayloadOfStoreBefore(type, ns, es, removed, rs) ==
  [type |-> type, nodes |-> enrichNodes(Serialize(nodes), rs),
   edges |-> enrichEdges(edges, rs), removed |-> removed]

\* pushUpdate(removed) / getFullState(): the message
\* (rs: the rates of the traffic scanner at that moment)
Payload(type, ns, es, removed, rs) ==
  [type |-> type, nodes |-> enrichNodes(Serialize(ns), rs), edges |-> enrichEdges(es, rs),
   removed |-> removed]

\* ---- the consumer ----

\* a freshly constructed consumer state
EmptyView == [nodes |-> Empty, edges |-> Empty]

\* (faulty variant: removed[] is not read)
handleMessageIgnoresRemoved(v, msg) ==
  IF msg.type = "full_state" THEN [nodes |-> msg.nodes, edges |-> msg.edges]
  ELSE IF msg.type = "node_update"
    THEN [nodes |-> msg.nodes @@ v.nodes, edges |-> msg.edges @@ v.edges]
  ELSE v

\* useNetworkState.handleMessage: a full_state replaces both maps; a node_update sets its
\* entities and relations in the maps, then deletes the removed ids and the relations that
\* reference them
handleMessage(v, msg) ==
  IF msg.type = "full_state" THEN [nodes |-> msg.nodes, edges |-> msg.edges]
  ELSE IF msg.type = "node_update"
    THEN LET ns1 == msg.nodes @@ v.nodes
             es1 == msg.edges @@ v.edges
         IN [nodes |-> [id \in (DOMAIN ns1) \ msg.removed |-> ns1[id]],
             edges |-> [e \in {x \in DOMAIN es1 : es1[x].source \notin msg.removed
                                                   /\ es1[x].target \notin msg.removed}
                          |-> es1[e]]]
  ELSE v

\* ---- history ----

NoteFirst(h, published) ==
  [id \in DOMAIN h |-> IF id \in DOMAIN published /\ h[id] = -1
                         THEN published[id].firstSeen ELSE h[id]]

Forget(h, ids) == [id \in DOMAIN h |-> IF id \in ids THEN -1 ELSE h[id]]

\* The store and the history after a handler: ns2/es2 the store it leaves, observed the ids of
\* the collector result it applied, removed the ids tick deleted, type the payload it
\* publishes ("none": nothing), before the nodes when classify() began (ns2: not run),
\* rs the rates of the traffic scanner when it publishes
CommitRates(ns2, es2, observed, removed, type, before, rs) ==
  /\ nodes' = ns2
  /\ edges' = es2
  /\ beforeClassify' = before
  /\ lastObserved' = [id \in DOMAIN lastObserved |->
                        IF id \in removed THEN -1
                        ELSE IF id \in observed THEN now ELSE lastObserved[id]]
  /\ removedPending' = IF type = "node_update"
                         THEN (removedPending \ observed) \cup removed
                         ELSE removedPending \ observed
  /\ pub' = IF type = "none" THEN pub ELSE Payload(type, ns2, es2, removed, rs)
  /\ lifeFirst' = IF type = "none" THEN Forget(lifeFirst, removed)
                  ELSE NoteFirst(Forget(lifeFirst, removed), ns2)
  /\ everFirst' = IF type = "none" THEN everFirst ELSE NoteFirst(everFirst, ns2)
  /\ view' = IF type = "none" \/ view = NoView THEN view
             ELSE handleMessage(view, Payload(type, ns2, es2, removed, rs))
  /\ lastFull' = IF type = "full_state" /\ view # NoView
                   THEN Payload(type, ns2, es2, removed, rs) ELSE lastFull

\* the same for a handler that leaves the rates alone
Commit(ns2, es2, observed, removed, type, before) ==
  CommitRates(ns2, es2, observed, removed, type, before, rates)


\* ---- the state after construction ----

AllIds == {HostId} \cup NonHostIds \cup {OwnServiceId}

\* infer() returned null
NullResult == [isNull |-> TRUE]

Init ==
  /\ now = 0
  /\ started = FALSE
  /\ nodes = Empty
  /\ edges = Empty
  /\ discoveredNodes = Empty
  /\ discoveredEdges = Empty
  /\ isCapturing = FALSE
  /\ proc = 0
  /\ procs = Empty
  /\ spawned = 0
  /\ killTimer = 0
  /\ enrichmentTimer = FALSE
  /\ currentOnUpdate = FALSE
  /\ thisDeviceIps = {}
  /\ protocolsByIp = Empty
  /\ bytesByIp = Empty
  /\ packetsByIp = Empty
  /\ eventSeq = 0
  /\ pub = NoPub
  /\ beforeClassify = Empty
  /\ lastObserved = [id \in AllIds |-> -1]
  /\ removedPending = {}
  /\ lifeFirst = [id \in AllIds |-> -1]
  /\ everFirst = [id \in AllIds |-> -1]
  /\ view = NoView
  /\ lastFull = NoPub
  /\ rates = Empty
  /\ prevSample = Empty
  /\ prevTimestamp = -1
  /\ paused = FALSE
  /\ timers = FALSE
  /\ browsing = FALSE
  /\ inflight = {}
  /\ windowReady = FALSE
  /\ scannerReady = FALSE
  /\ stopCalled = FALSE
  /\ scanNowCalled = FALSE
  /\ pendingStarts = 0
  /\ available = "null"
  /\ hasPermission = "null"
  /\ lastError = Undefined
  /\ drainTimer = 0
  /\ drainIntervals = {}
  /\ drained = {}
  /\ onEventCallback = FALSE
  /\ events = <<>>
  /\ pendingEvents = <<>>
  /\ delivered = <<>>
  /\ deliveredInPeriod = 0
  /\ deniedPid = 0
  /\ activeInterface = "en0"
  /\ ipIndex = Empty
  /\ lastEvent = NoEvent
  /\ hardKilled = {}
  /\ failedCalls = {}
  /\ startArgs = NoStart
  /\ dnsCache = Empty
  /\ pendingLookups = {}
  /\ lookups = [h \in RemoteHosts |-> 0]
  /\ finishing = [h \in RemoteHosts |-> 0]
  /\ connScans = Empty
  /\ lastResult = NoResult
  /\ osSignals = <<>>
  /\ osResult = NullResult
  /\ ttls = <<>>
  /\ medianTtl = 0
  /\ ttlSignals = <<>>

\* ---- handlers ----

\* Orchestrator.start() up to its first await: seedThisDevice()
Start ==
  /\ ~started
  /\ started' = TRUE
  /\ Commit(upsertNode(nodes, ThisDeviceNode(now), now), edges, {HostId}, {}, "none",
            upsertNode(nodes, ThisDeviceNode(now), now))
  /\ UNCHANGED <<now, bonjourVars, packetVars>>
  /\ UNCHANGED restVars

\* time passes between two handlers
Advance(d) ==
  /\ started
  /\ now + d <= MaxNow
  /\ now' = now + d
  /\ beforeClassify' = nodes
  /\ UNCHANGED <<started, storeVars, bonjourVars, packetVars, pub,
                 lastObserved, removedPending, lifeFirst, everFirst, view, lastFull>>
  /\ UNCHANGED restVars

\* runScanner(arp) from its await on: the table held the neighbours in present
RunArp(present, gw) ==
  LET ns1 == upsertAll(nodes, {ArpNode(id, gw, now) : id \in present}, now)
      es1 == upsertEdges(edges, {ArpEdge(id, gw) : id \in present})
      ns2 == classify(ns1, now)
  IN /\ started
     /\ Commit(ns2, es1, present, {}, "node_update", ns1)
     /\ thisDeviceIps' = IF isCapturing THEN refreshIndex(ns2) ELSE thisDeviceIps
     /\ UNCHANGED <<now, started, bonjourVars, procVars, aggVars>>
     /\ UNCHANGED restVars

\* runScanner of a scanner whose result is empty (topology, traffic, a failed scan)
RunEmptyScan ==
  /\ started
  /\ Commit(nodes, edges, {}, {}, "node_update", nodes)
  /\ UNCHANGED <<now, started, bonjourVars, packetVars>>
  /\ UNCHANGED restVars

\* runScanner(bonjour) (scanNow): the accumulated services are applied again
RunBonjourScan ==
  LET ns1 == upsertAll(nodes, Values(discoveredNodes), now)
      es1 == upsertEdges(edges, Values(discoveredEdges))
      ns2 == classify(ns1, now)
  IN /\ started
     /\ Commit(ns2, es1, DOMAIN discoveredNodes, {}, "node_update", ns1)
     /\ UNCHANGED <<now, started, bonjourVars, packetVars>>
     /\ UNCHANGED restVars

\* the browser callback of BonjourScanner.browseType for service id, with the onUpdate
\* that Orchestrator.start() registered
BonjourService(id) ==
  LET dn == Put(discoveredNodes, id, BonjourNode(id, now))
      de == Put(discoveredEdges, EdgeId(id), BonjourEdge(id))
      ns1 == upsertAll(nodes, Values(dn), now)
      es1 == upsertEdges(edges, Values(de))
      ns2 == classify(ns1, now)
  IN /\ started
     /\ discoveredNodes' = dn
     /\ discoveredEdges' = de
     /\ Commit(ns2, es1, DOMAIN dn, {}, "node_update", ns1)
     /\ UNCHANGED <<now, started, packetVars>>
     /\ UNCHANGED restVars

\* the lifecycle interval of Orchestrator.start()
LifecycleTick ==
  LET r == tick(nodes, edges, now) IN
  /\ started
  /\ Commit(r.nodes, r.edges, {}, r.removed,
            IF r.removed # {} \/ r.statusChanged THEN "node_update" ELSE "none", r.nodes)
  /\ UNCHANGED <<now, started, bonjourVars, packetVars>>
  /\ UNCHANGED restVars

\* getFullState() / sendFullState()
GetFullState ==
  /\ started
  /\ Commit(nodes, edges, {}, {}, "full_state", nodes)
  /\ UNCHANGED <<now, started, bonjourVars, packetVars>>
  /\ UNCHANGED restVars

\* startPacketCapture(): stop() when capturing; then either the status check fails (ok = FALSE)
\* or the index is refreshed and start() spawns tshark and arms the timers
StartPacketCapture(ok) ==
  LET stopped == isCapturing IN
  /\ started
  /\ ok => spawned < MaxProcs
  /\ procs' = IF ok THEN Put(IF stopped THEN stopProcs ELSE procs, spawned + 1, "running")
              ELSE IF stopped THEN stopProcs ELSE procs
  /\ proc' = IF ok THEN spawned + 1 ELSE IF stopped THEN 0 ELSE proc
  /\ spawned' = IF ok THEN spawned + 1 ELSE spawned
  /\ killTimer' = IF stopped THEN stopKillTimer ELSE killTimer
  /\ isCapturing' = ok
  /\ enrichmentTimer' = (ok \/ (~stopped /\ enrichmentTimer))
  /\ currentOnUpdate' = (ok \/ (~stopped /\ currentOnUpdate))
  /\ thisDeviceIps' = IF ok THEN refreshIndex(nodes) ELSE thisDeviceIps
  /\ beforeClassify' = nodes
  /\ UNCHANGED <<now, started, storeVars, bonjourVars, aggVars, pub,
                 lastObserved, removedPending, lifeFirst, everFirst, view, lastFull>>
  /\ UNCHANGED restVars

\* stopPacketCapture(): PacketScanner.stop()
StopPacketCapture ==
  /\ started
  /\ procs' = stopProcs
  /\ killTimer' = stopKillTimer
  /\ proc' = 0
  /\ isCapturing' = FALSE
  /\ enrichmentTimer' = FALSE
  /\ currentOnUpdate' = FALSE
  /\ beforeClassify' = nodes
  /\ UNCHANGED <<now, started, storeVars, bonjourVars, spawned, thisDeviceIps, aggVars, pub,
                 lastObserved, removedPending, lifeFirst, everFirst, view, lastFull>>
  /\ UNCHANGED restVars

\* the 'exit' handler of a spawned tshark
ProcExit(pid) ==
  /\ pid \in DOMAIN procs
  /\ procs' = [p \in (DOMAIN procs) \ {pid} |-> procs[p]]
  /\ isCapturing' = FALSE
  /\ proc' = 0
  /\ killTimer' = 0
  /\ beforeClassify' = nodes
  /\ UNCHANGED <<now, started, storeVars, bonjourVars, spawned, enrichmentTimer,
                 currentOnUpdate, thisDeviceIps, aggVars, pub,
                 lastObserved, removedPending, lifeFirst, everFirst, view, lastFull>>
  /\ UNCHANGED restVars

\* the kill timer of stop(): SIGKILL to the process it captured
KillTimerFire ==
  /\ killTimer # 0
  /\ killTimer' = 0
  /\ beforeClassify' = nodes
  /\ UNCHANGED <<now, started, storeVars, bonjourVars, isCapturing, proc, procs, spawned,
                 enrichmentTimer, currentOnUpdate, thisDeviceIps, aggVars, pub,
                 lastObserved, removedPending, lifeFirst, everFirst, view, lastFull>>
  /\ UNCHANGED restVars

\* parseLine() for one stdout line of a living tshark
ParseLine(pid, srcIp, dstIp, proto, len) ==
  LET agg == aggregate([protocols |-> protocolsByIp, bytes |-> bytesByIp, packets |-> packetsByIp],
                       <<srcIp, dstIp>>, proto, len)
  IN /\ pid \in DOMAIN procs
     /\ eventSeq < MaxPackets
     /\ eventSeq' = eventSeq + 1
     /\ protocolsByIp' = agg.protocols
     /\ bytesByIp' = agg.bytes
     /\ packetsByIp' = agg.packets
     /\ beforeClassify' = nodes
     /\ UNCHANGED <<now, started, storeVars, bonjourVars, procVars, thisDeviceIps, pub,
                    lastObserved, removedPending, lifeFirst, everFirst, view, lastFull>>
     /\ UNCHANGED restVars

\* enrichProtocols(): the objects it hands to the store
enrichTargets(ns) ==
  {[protocols |-> [ref |-> n.ip],
    totalBytes |-> IF n.ip \in DOMAIN bytesByIp THEN bytesByIp[n.ip] ELSE 0,
    totalPackets |-> IF n.ip \in DOMAIN packetsByIp THEN packetsByIp[n.ip] ELSE 0] @@ n
   : n \in {x \in Values(ns) : Truthy(x, "ip") /\ x.ip \in DOMAIN protocolsByIp}}

\* enrichProtocols(): the store's nodes afterwards
enrichProtocols(ns, t) == upsertAll(ns, enrichTargets(ns), t)

\* the enrichment interval of PacketScanner.start(): the flush hook
Flush ==
  /\ enrichmentTimer
  /\ IF currentOnUpdate
       THEN /\ thisDeviceIps' = refreshIndex(nodes)
            /\ Commit(enrichProtocols(nodes, now), edges, {}, {},
                      IF enrichTargets(nodes) # {} THEN "node_update" ELSE "none",
                      enrichProtocols(nodes, now))
       ELSE UNCHANGED <<storeVars, thisDeviceIps, pub, histVars>>
  /\ UNCHANGED <<now, started, bonjourVars, procVars, aggVars>>
  /\ UNCHANGED restVars

Next ==
  \/ Start
  \/ \E d \in Delays : Advance(d)
  \/ \E present \in SUBSET LanIds, gw \in BOOLEAN : RunArp(present, gw)
  \/ RunEmptyScan
  \/ RunBonjourScan
  \/ \E id \in BonjourIds : BonjourService(id)
  \/ LifecycleTick
  \/ GetFullState
  \/ \E ok \in BOOLEAN : StartPacketCapture(ok)
  \/ StopPacketCapture
  \/ \E pid \in DOMAIN procs : ProcExit(pid)
  \/ KillTimerFire
  \/ \E pid \in DOMAIN procs, flow \in Flows, proto \in Protocols, len \in FrameLens :
       ParseLine(pid, flow[1], flow[2], proto, len)
  \/ Flush

Spec == Init /\ [][Next]_vars

\* ---- the store and a consumer ----

\* the consumer mounts: useScanner subscribes to the updates and requests the full state,
\* which handleMessage() applies to the freshly constructed consumer state
Mount ==
  /\ started
  /\ pub' = Payload("full_state", nodes, edges, {}, rates)
  /\ view' = handleMessage(EmptyView, Payload("full_state", nodes, edges, {}, rates))
  /\ lastFull' = Payload("full_state", nodes, edges, {}, rates)
  /\ lifeFirst' = NoteFirst(lifeFirst, nodes)
  /\ everFirst' = NoteFirst(everFirst, nodes)
  /\ beforeClassify' = nodes
  /\ UNCHANGED <<now, started, storeVars, bonjourVars, packetVars, lastObserved,
                 removedPending, restVars>>

NextConsumer ==
  \/ Start
  \/ \E d \in Delays : Advance(d)
  \/ \E present \in SUBSET LanIds, gw \in BOOLEAN : RunArp(present, gw)
  \/ \E id \in BonjourIds : BonjourService(id)
  \/ LifecycleTick
  \/ GetFullState
  \/ Mount

\* the store, its publications and the consumer that applies them
SpecConsumer == Init /\ [][NextConsumer]_vars

\* ---- connections and throughput ----

ConnId == "conn-TCP-93.184.216.34-443-curl"
\* a socket nettop reports and lsof does not
OtherConnId == "conn-TCP-10.0.0.9-22-ssh"
ConnIds == {ConnId}
TrafficKeys == {ConnId, OtherConnId}
\* the byte counters nettop reports (multiples of every elapsed time of the model)
SampleBytes == {0, 360000}
Samples == UNION {[ks -> [bytesIn : SampleBytes, bytesOut : {0}]] : ks \in SUBSET TrafficKeys}

\* ConnectionsScanner.scan: the node and the edge of one socket line
ConnNode(id, t) ==
  [id |-> id, signalType |-> "connection", name |-> "curl -> 93.184.216.34:443 (HTTPS)",
   status |-> "active", firstSeen |-> t, lastSeen |-> t, ip |-> "93.184.216.34",
   protocol |-> "TCP", localPort |-> 54321, remotePort |-> 443,
   remoteHost |-> "93.184.216.34", state |-> "ESTABLISHED", processName |-> "curl",
   resolvedHostname |-> Undefined, serviceName |-> "HTTPS"]

ConnEdge(id) == [id |-> EdgeId(id), source |-> HostId, target |-> id, type |-> "connected_to"]

Max(a, b) == IF a > b THEN a ELSE b

\* processSample(): the rates after the sample taken at t; elapsed is in milliseconds here,
\* and the byte counters of the model make every quotient a whole number
processSample(sample, t) ==
  LET elapsed == IF prevTimestamp >= 0 THEN t - prevTimestamp ELSE 0
      deltaIn(k) == Max(0, sample[k].bytesIn - prevSample[k].bytesIn)
      deltaOut(k) == Max(0, sample[k].bytesOut - prevSample[k].bytesOut)
      keys == {k \in (DOMAIN sample) \cap (DOMAIN prevSample) : deltaIn(k) + deltaOut(k) > 0}
  IN IF elapsed > 0 /\ DOMAIN prevSample # {}
       THEN [k \in keys |->
               [bytesPerSec |-> ((deltaIn(k) + deltaOut(k)) * 1000) \div elapsed,
                bytesInPerSec |-> (deltaIn(k) * 1000) \div elapsed,
                bytesOutPerSec |-> (deltaOut(k) * 1000) \div elapsed]]
       ELSE rates

\* runScanner(connections) from its await on: lsof showed the sockets in present
RunConnections(present) ==
  /\ started
  /\ Commit(upsertAll(nodes, {ConnNode(id, now) : id \in present}, now),
            upsertEdges(edges, {ConnEdge(id) : id \in present}), present, {}, "node_update",
            upsertAll(nodes, {ConnNode(id, now) : id \in present}, now))
  /\ UNCHANGED <<now, started, bonjourVars, packetVars, trafficVars, controlVars, captureVars, auxVars>>

\* runScanner(traffic) from nettop's answer on: processSample(), then the empty result is
\* applied and published
RunTraffic(sample) ==
  /\ started
  /\ rates' = processSample(sample, now)
  /\ prevSample' = sample
  /\ prevTimestamp' = now
  /\ CommitRates(nodes, edges, {}, {}, "node_update", nodes, processSample(sample, now))
  /\ UNCHANGED <<now, started, bonjourVars, packetVars, controlVars, captureVars, auxVars>>

NextTraffic ==
  \/ Start
  \/ \E d \in Delays : Advance(d)
  \/ \E present \in SUBSET ConnIds : RunConnections(present)
  \/ \E sample \in Samples : RunTraffic(sample)
  \/ LifecycleTick
  \/ GetFullState

\* the store with the connections and the traffic scanner
SpecTraffic == Init /\ [][NextTraffic]_vars

\* byte counters running in both directions (multiples of every elapsed time of the model)
RateBytesIn == {360000, 720000}
RateBytesOut == {0, 720000}
RateSamples ==
  {s \in UNION {[ks -> [bytesIn : RateBytesIn, bytesOut : RateBytesOut]] : ks \in SUBSET TrafficKeys} :
     OtherConnId \in DOMAIN s => s[OtherConnId].bytesOut = 0}

NextRates ==
  \/ Start
  \/ \E d \in Delays : Advance(d)
  \/ \E present \in SUBSET ConnIds : RunConnections(present)
  \/ \E sample \in RateSamples : RunTraffic(sample)

\* the traffic scanner with counters running in both directions
SpecRates == Init /\ [][NextRates]_vars

\* ---- scan control, start and shutdown ----

\* the polled collectors of this specification
Scanners == {"arp", "topology"}
\* the arguments of scanNow(): a collector's name, or none ("all")
ScanNowNames == Scanners \cup {"all"}

Call(s, origin) == [scanner |-> s, origin |-> origin]

\* a faulty schedule(): the interval callback without its check of paused
scheduleIgnoringPause(p, calls, s) == calls \cup {Call(s, "timer")}

\* schedule(): the interval callback of collector s; calls are the runScanner() calls in flight
schedule(p, calls, s) == IF ~p THEN calls \cup {Call(s, "timer")} ELSE calls

\* PacketScanner.stop(): its part on the process, the flush interval and the kill timer
stopPacketScanner ==
  /\ procs' = stopProcs
  /\ killTimer' = stopKillTimer
  /\ proc' = 0
  /\ isCapturing' = FALSE
  /\ enrichmentTimer' = FALSE
  /\ currentOnUpdate' = FALSE

\* PacketScanner.stop(): all of it
stop ==
  /\ stopPacketScanner
  /\ drainIntervals' = drainIntervals \ {drainTimer}
  /\ drainTimer' = 0
  /\ onEventCallback' = FALSE

\* app ready: orchestrator.start() up to its await of the initial scans (bonjour.start() has
\* no await of its own, so no event is handled before the intervals are registered and the
\* initial runScanner() calls are made)
OrchestratorStart ==
  /\ ~started
  /\ started' = TRUE
  /\ Commit(upsertNode(nodes, ThisDeviceNode(now), now), edges, {HostId}, {}, "none",
            upsertNode(nodes, ThisDeviceNode(now), now))
  /\ browsing' = TRUE
  /\ timers' = TRUE
  /\ inflight' = {Call(s, "initial") : s \in Scanners}
  /\ UNCHANGED <<now, bonjourVars, packetVars, trafficVars, captureVars, auxVars, paused, windowReady, scannerReady,
                 stopCalled, scanNowCalled>>

\* 'did-finish-load' of the main window: maybeSendFullState()
WindowLoaded ==
  /\ started
  /\ ~windowReady
  /\ windowReady' = TRUE
  /\ Commit(nodes, edges, {}, {}, IF scannerReady THEN "full_state" ELSE "none", nodes)
  /\ UNCHANGED <<now, started, bonjourVars, packetVars, trafficVars, captureVars, auxVars, paused, timers, browsing,
                 inflight, scannerReady, stopCalled, scanNowCalled>>

\* scanner:pause
Pause ==
  /\ started /\ ~stopCalled
  /\ paused' = TRUE
  /\ scanNowCalled' = FALSE
  /\ beforeClassify' = nodes
  /\ UNCHANGED <<now, started, storeVars, bonjourVars, packetVars, pub, lastObserved,
                 removedPending, lifeFirst, everFirst, view, lastFull, trafficVars, captureVars, auxVars, timers, browsing, inflight,
                 windowReady, scannerReady, stopCalled>>

\* scanner:resume
Resume ==
  /\ started /\ ~stopCalled
  /\ paused' = FALSE
  /\ scanNowCalled' = FALSE
  /\ beforeClassify' = nodes
  /\ UNCHANGED <<now, started, storeVars, bonjourVars, packetVars, pub, lastObserved,
                 removedPending, lifeFirst, everFirst, view, lastFull, trafficVars, captureVars, auxVars, timers, browsing, inflight,
                 windowReady, scannerReady, stopCalled>>

\* the interval of schedule() for collector s fires (one call per collector and origin is
\* followed while it is in flight)
TimerFire(s) ==
  /\ timers
  /\ Call(s, "timer") \notin inflight
  /\ inflight' = schedule(paused, inflight, s)
  /\ beforeClassify' = nodes
  /\ UNCHANGED <<now, started, storeVars, bonjourVars, packetVars, pub, lastObserved,
                 removedPending, lifeFirst, everFirst, view, lastFull, trafficVars, captureVars, auxVars, paused, timers, browsing,
                 windowReady, scannerReady, stopCalled, scanNowCalled>>

\* scanner:scan-now: scanNow(name) calls runScanner() for the named collector, scanNow() for
\* all of them; bonjour.scan() answers at once, so its result is applied and published
\* before any other event is handled
ScanNow(name) ==
  LET ns1 == upsertAll(nodes, Values(discoveredNodes), now)
      es1 == upsertEdges(edges, Values(discoveredEdges))
      ns2 == classify(ns1, now)
  IN /\ started /\ ~stopCalled
     /\ \A s \in Scanners : (name \in {s, "all"}) => Call(s, "now") \notin inflight
     /\ inflight' = inflight \cup {Call(s, "now") : s \in {x \in Scanners : name \in {x, "all"}}}
     /\ scanNowCalled' = TRUE
     /\ IF name = "all"
          THEN Commit(ns2, es1, DOMAIN discoveredNodes, {}, "node_update", ns1)
          ELSE Commit(nodes, edges, {}, {}, "none", nodes)
     /\ UNCHANGED <<now, started, bonjourVars, packetVars, trafficVars, captureVars, auxVars, paused, timers,
                    browsing, windowReady, scannerReady, stopCalled>>

\* what the scan() of a collector answers in this specification: the link-layer table holds
\* the neighbour, the topology result has no entities
Answer(s) == IF s = "arp" THEN LanIds ELSE {}

\* runScanner() of call c from the answer of its scan() on, when the table held the
\* neighbours in present: the result is applied, classified and published; when it was the
\* last of the initial scans, start() resolves and index.ts sets scannerReady and calls
\* maybeSendFullState() before any other event is handled
scanReturn(c, present) ==
  LET isArp == c.scanner = "arp"
      ns1 == upsertAll(nodes, {ArpNode(id, FALSE, now) : id \in present}, now)
      es1 == upsertEdges(edges, {ArpEdge(id, FALSE) : id \in present})
      ns2 == IF isArp THEN classify(ns1, now) ELSE ns1
      resolves == c.origin = "initial" /\ ~\E d \in inflight \ {c} : d.origin = "initial"
  IN /\ c \in inflight
     /\ inflight' = inflight \ {c}
     /\ scannerReady' = (scannerReady \/ resolves)
     /\ Commit(ns2, es1, present, {},
               IF resolves /\ windowReady THEN "full_state" ELSE "node_update", ns1)
     /\ thisDeviceIps' = IF isCapturing /\ isArp THEN refreshIndex(ns2) ELSE thisDeviceIps
     /\ UNCHANGED <<now, started, bonjourVars, procVars, aggVars, trafficVars, captureVars, paused, timers,
                    browsing, windowReady, stopCalled, scanNowCalled>>

\* runScanner() of call c from the answer of its scan() on
ScanReturn(c) == scanReturn(c, Answer(c.scanner)) /\ UNCHANGED auxVars

\* runScanner() of call c when the subprocess of its scan() failed: the collector caught
\* the error and answered what it had collected, the empty result
ScanFails(c) ==
  /\ scanReturn(c, {})
  /\ failedCalls' = failedCalls \cup {c}
  /\ UNCHANGED <<activeInterface, ipIndex, lastEvent, hardKilled, startArgs, lateVars>>

\* runScanner() of call c when its scan() was rejected: the catch of runScanner(); start()
\* awaits the initial calls with Promise.allSettled()
ScanRejects(c) ==
  LET resolves == c.origin = "initial" /\ ~\E d \in inflight \ {c} : d.origin = "initial"
  IN /\ c \in inflight
     /\ inflight' = inflight \ {c}
     /\ scannerReady' = (scannerReady \/ resolves)
     /\ Commit(nodes, edges, {}, {}, IF resolves /\ windowReady THEN "full_state" ELSE "none",
               nodes)
     /\ failedCalls' = failedCalls \cup {c}
     /\ UNCHANGED <<now, started, bonjourVars, packetVars, trafficVars, captureVars, paused,
                    timers, browsing, windowReady, stopCalled, scanNowCalled,
                    activeInterface, ipIndex, lastEvent, hardKilled, startArgs, lateVars>>

\* the browser callback for service id while the browsers exist
BonjourCallback(id) ==
  LET dn == Put(discoveredNodes, id, BonjourNode(id, now))
      de == Put(discoveredEdges, EdgeId(id), BonjourEdge(id))
      ns1 == upsertAll(nodes, Values(dn), now)
      es1 == upsertEdges(edges, Values(de))
      ns2 == classify(ns1, now)
  IN /\ browsing
     /\ discoveredNodes' = dn
     /\ discoveredEdges' = de
     /\ Commit(ns2, es1, DOMAIN dn, {}, "node_update", ns1)
     /\ UNCHANGED <<now, started, packetVars, restVars>>

\* the lifecycle interval while it is registered
TickTimer ==
  LET r == tick(nodes, edges, now) IN
  /\ timers
  /\ Commit(r.nodes, r.edges, {}, r.removed,
            IF r.removed # {} \/ r.statusChanged THEN "node_update" ELSE "none", r.nodes)
  /\ UNCHANGED <<now, started, bonjourVars, packetVars, restVars>>

\* 'before-quit': Orchestrator.stop()
Stop ==
  /\ started /\ ~stopCalled
  /\ stopCalled' = TRUE
  /\ timers' = FALSE
  /\ browsing' = FALSE
  /\ stop
  /\ beforeClassify' = nodes
  /\ UNCHANGED <<now, started, storeVars, bonjourVars, spawned, thisDeviceIps, aggVars, pub,
                 lastObserved, removedPending, lifeFirst, everFirst, view, lastFull, trafficVars, auxVars, paused,
                 inflight, windowReady, scannerReady, scanNowCalled, pendingStarts, available,
                 hasPermission, lastError, drained, events, pendingEvents, delivered,
                 deliveredInPeriod, deniedPid>>

\* the time between two handlers, and the packets, of the two specifications below
ControlDelays == {90000}
ControlFlows == {<<LanIp, HostIp>>}

NextControl ==
  \/ OrchestratorStart
  \/ \E d \in ControlDelays : Advance(d)
  \/ Pause
  \/ Resume
  \/ \E s \in Scanners : TimerFire(s)
  \/ \E name \in ScanNowNames : ScanNow(name)
  \/ \E c \in inflight : ScanReturn(c)
  \/ \E id \in BonjourIds : BonjourCallback(id)
  \/ TickTimer
  \/ StartPacketCapture(TRUE)
  \/ \E pid \in DOMAIN procs, flow \in ControlFlows, proto \in Protocols, len \in FrameLens :
       ParseLine(pid, flow[1], flow[2], proto, len)
  \/ Flush

\* the orchestrator with its scan control
SpecControl == Init /\ [][NextControl]_vars

NextStartStop ==
  \/ OrchestratorStart
  \/ WindowLoaded
  \/ \E d \in ControlDelays : Advance(d)
  \/ \E s \in Scanners : TimerFire(s)
  \/ \E c \in inflight : ScanReturn(c)
  \/ \E id \in BonjourIds : BonjourCallback(id)
  \/ TickTimer
  \/ Stop

\* the orchestrator from the start of the application to its shutdown
SpecStartStop == Init /\ [][NextStartStop]_vars

NextFailure ==
  \/ OrchestratorStart
  \/ WindowLoaded
  \/ \E d \in ControlDelays : Advance(d)
  \/ \E s \in Scanners : TimerFire(s)
  \/ \E name \in ScanNowNames : ScanNow(name)
  \/ \E c \in inflight : ScanReturn(c)
  \/ \E c \in inflight : ScanFails(c)
  \/ \E c \in inflight : ScanRejects(c)
  \/ \E id \in BonjourIds : BonjourCallback(id)
  \/ TickTimer

\* the orchestrator with collectors whose scans can fail
SpecFailure == Init /\ [][NextFailure]_vars

\* ---- the capture process, its timers and the event queue ----

MAX_EVENTS == 10000
MAX_EVENTS_PER_DRAIN == 10

\* startPacketCapture() calls followed between their awaits and start(), tshark processes
\* spawned, stdout lines parsed
MaxPendingStarts == 2
MaxCaptures == 2
MaxLines == 12
\* the numbers of lines of one stdout chunk
ChunkSizes == {1, 11}
CaptureFlow == <<LanIp, HostIp>>

Remediation == "BPF permission denied. Install Wireshark ChmodBPF or run: sudo chmod o+r /dev/bpf*"

\* a faulty ring: parseLine() without the shift
ringPushNoShift(ring, e) == Append(ring, e)

\* parseLine(): the event joins the ring
ringPush(ring, e) == Append(IF Len(ring) >= MAX_EVENTS THEN Tail(ring) ELSE ring, e)

\* parseLine() for one accepted line: st holds eventSeq, the ring, the pending queue and the
\* per-IP counters
parseLine(st) ==
  [seq |-> st.seq + 1,
   events |-> ringPush(st.events, st.seq + 1),
   pending |-> Append(st.pending, st.seq + 1),
   agg |-> aggregate(st.agg, CaptureFlow, "TLS", 1500)]

\* the loop of the stdout handler over the n lines of a chunk: the first half of the lines,
\* then the rest (the test of first.seq makes the evaluation finish the first half before
\* it begins with the rest; eventSeq is positive after a line)
RECURSIVE parseLines(_, _)
parseLines(st, n) ==
  IF n = 0 THEN st
  ELSE IF n = 1 THEN parseLine(st)
  ELSE LET half == n \div 2
           first == parseLines(st, half)
       IN IF first.seq > 0 THEN parseLines(first, n - half) ELSE first

Min(a, b) == IF a < b THEN a ELSE b

\* getStatus() once the availability has been checked: what it reports
getStatus ==
  [available |-> available = "true",
   hasPermission |-> hasPermission = "true",
   capturing |-> isCapturing,
   error |-> lastError]

\* packet:start: startPacketCapture() up to its awaits (getStatus(), detectDefaultInterface())
CaptureStartRequest ==
  /\ pendingStarts < MaxPendingStarts
  /\ pendingStarts' = pendingStarts + 1
  /\ IF isCapturing THEN stop
     ELSE UNCHANGED <<procVars, drainIntervals, drainTimer, onEventCallback>>
  /\ beforeClassify' = nodes
  /\ UNCHANGED <<now, started, storeVars, bonjourVars, thisDeviceIps, aggVars, pub,
                 lastObserved, removedPending, lifeFirst, everFirst, view, lastFull, trafficVars, controlVars, auxVars,
                 available, hasPermission, lastError, drained, events, pendingEvents,
                 delivered, deliveredInPeriod, deniedPid>>
  /\ spawned' = spawned

\* the interfaces of this environment, and the answers of listInterfaces() and of
\* detectDefaultInterface()
Interfaces == {"en0", "en1", "utun3"}
InterfaceLists == {{}, {"en0", "en1"}}
DefaultInterfaces == {"en0"}

\* iface ?? await detectDefaultInterface()
selectInterface(iface, def) == IF iface # Undefined THEN iface ELSE def

\* the validation of the target interface against status.interfaces
interfaceFound(target, valid) == ~(valid # {} /\ target \notin valid)

\* refreshIndex(): the ids that set ipIndex for ip (an entity's set() comes after the
\* Host's, which start() inserts first), and the indexes the loop can leave (the one that
\* sets the ip last wins)
indexCandidates(ns, ip) ==
  LET others == {id \in DOMAIN ns : ns[id].signalType # "this_device" /\ Truthy(ns[id], "ip")
                                       /\ ns[id].ip = ip}
  IN IF others # {} THEN others ELSE {HostId}
indexedIps(ns) ==
  refreshIndex(ns) \cup {ns[id].ip : id \in {x \in DOMAIN ns : ns[x].signalType # "this_device"
                                                               /\ Truthy(ns[x], "ip")}}
ipIndexes(ns) ==
  {ix \in [indexedIps(ns) -> DOMAIN ns] : \A ip \in indexedIps(ns) : ix[ip] \in indexCandidates(ns, ip)}

\* startPacketCapture(iface) from its awaits on: tshark was found and /dev/bpf0 was readable
\* or not (perm), listInterfaces() answered valid and the default-route lookup def; either
\* the target interface is not found or the interface is set, the index is refreshed and
\* start() sets the callbacks, spawns tshark and sets both intervals
CaptureStartOn(iface, valid, def, perm) ==
  LET target == selectInterface(iface, def)
      ok == interfaceFound(target, valid)
  IN
  /\ pendingStarts > 0
  /\ pendingStarts' = pendingStarts - 1
  /\ ok => spawned < MaxCaptures
  /\ available' = IF available = "null" THEN "true" ELSE available
  /\ hasPermission' = IF available = "null" THEN (IF perm THEN "true" ELSE "false")
                      ELSE hasPermission
  /\ startArgs' = [iface |-> iface, interfaces |-> valid, default |-> def]
  /\ IF ok
       THEN /\ activeInterface' = target
            /\ thisDeviceIps' = refreshIndex(nodes)
            /\ \E ix \in ipIndexes(nodes) : ipIndex' = ix
            /\ currentOnUpdate' = TRUE
            /\ onEventCallback' = TRUE
            /\ isCapturing' = TRUE
            /\ lastError' = Undefined
            /\ spawned' = spawned + 1
            /\ procs' = Put(procs, spawned + 1, "running")
            /\ proc' = spawned + 1
            /\ enrichmentTimer' = TRUE
            /\ drainTimer' = spawned + 1
            /\ drainIntervals' = drainIntervals \cup {spawned + 1}
            /\ drained' = drained \cup {spawned + 1}
            /\ deniedPid' = 0
            /\ UNCHANGED killTimer
       ELSE UNCHANGED <<activeInterface, ipIndex, thisDeviceIps, procVars, onEventCallback,
                        lastError, drainTimer, drainIntervals, drained, deniedPid>>
  /\ beforeClassify' = nodes
  /\ UNCHANGED <<now, started, storeVars, bonjourVars, aggVars, pub, lastObserved,
                 removedPending, lifeFirst, everFirst, view, lastFull, trafficVars, controlVars, events,
                 pendingEvents, delivered, deliveredInPeriod, lastEvent, hardKilled,
                 failedCalls, lateVars>>

\* startPacketCapture() without an argument, from its awaits on: the default interface en0
\* is among the host's interfaces (ok) or is not
CaptureStartContinue(ok, perm) ==
  CaptureStartOn(Undefined, IF ok THEN {"en0"} ELSE {"en1"}, "en0", perm)

\* packet:stop: stopPacketCapture()
CaptureStop ==
  /\ stop
  /\ beforeClassify' = nodes
  /\ UNCHANGED <<now, started, storeVars, bonjourVars, spawned, thisDeviceIps, aggVars, pub,
                 lastObserved, removedPending, lifeFirst, everFirst, view, lastFull, trafficVars, controlVars, auxVars,
                 pendingStarts, available, hasPermission, lastError, drained, events,
                 pendingEvents, delivered, deliveredInPeriod, deniedPid>>

\* the 'exit' handler of the tshark pid
CaptureExit(pid) ==
  /\ pid \in DOMAIN procs
  /\ procs' = [p \in (DOMAIN procs) \ {pid} |-> procs[p]]
  /\ isCapturing' = FALSE
  /\ proc' = 0
  /\ killTimer' = 0
  /\ beforeClassify' = nodes
  /\ UNCHANGED <<now, started, storeVars, bonjourVars, spawned, enrichmentTimer,
                 currentOnUpdate, thisDeviceIps, aggVars, pub, lastObserved, removedPending,
                 lifeFirst, everFirst, view, lastFull, restVars>>

\* the stdout handler of the tshark pid for a chunk of n lines, while fewer than bound lines
\* have been parsed
StdoutData(pid, n, bound) ==
  LET st == parseLines([seq |-> eventSeq, events |-> events, pending |-> pendingEvents,
                        agg |-> [protocols |-> protocolsByIp, bytes |-> bytesByIp,
                                 packets |-> packetsByIp]], n)
  IN /\ pid \in DOMAIN procs
     /\ eventSeq + n <= bound
     /\ eventSeq' = st.seq
     /\ events' = st.events
     /\ pendingEvents' = st.pending
     /\ protocolsByIp' = st.agg.protocols
     /\ bytesByIp' = st.agg.bytes
     /\ packetsByIp' = st.agg.packets
     /\ beforeClassify' = nodes
     /\ UNCHANGED <<now, started, storeVars, bonjourVars, procVars, thisDeviceIps, pub,
                    lastObserved, removedPending, lifeFirst, everFirst, view, lastFull, trafficVars,
                    controlVars, auxVars, pendingStarts, available, hasPermission, lastError,
                    drainTimer, drainIntervals, drained, onEventCallback, delivered,
                    deliveredInPeriod, deniedPid>>

\* the stderr handler of the tshark pid for a line that contains "permission denied"
StderrDenied(pid) ==
  /\ pid \in DOMAIN procs
  /\ hasPermission' = "false"
  /\ lastError' = Remediation
  /\ stop
  /\ deniedPid' = pid
  /\ beforeClassify' = nodes
  /\ UNCHANGED <<now, started, storeVars, bonjourVars, spawned, thisDeviceIps, aggVars, pub,
                 lastObserved, removedPending, lifeFirst, everFirst, view, lastFull, trafficVars, controlVars, auxVars,
                 pendingStarts, available, drained, events, pendingEvents, delivered,
                 deliveredInPeriod>>

\* drainEvents() called by the drain interval i
Drain(i) ==
  LET k == Min(MAX_EVENTS_PER_DRAIN, Len(pendingEvents))
      sends == pendingEvents # <<>> /\ onEventCallback
  IN /\ i \in drainIntervals \ drained
     /\ drained' = drained \cup {i}
     /\ pendingEvents' = IF sends THEN SubSeq(pendingEvents, k + 1, Len(pendingEvents))
                         ELSE pendingEvents
     /\ delivered' = IF sends THEN delivered \o SubSeq(pendingEvents, 1, k) ELSE delivered
     /\ deliveredInPeriod' = IF sends THEN deliveredInPeriod + k ELSE deliveredInPeriod
     /\ beforeClassify' = nodes
     /\ UNCHANGED <<now, started, storeVars, bonjourVars, packetVars, pub, lastObserved,
                    removedPending, lifeFirst, everFirst, view, lastFull, trafficVars, controlVars, auxVars,
                    pendingStarts, available, hasPermission, lastError, drainTimer,
                    drainIntervals, onEventCallback, events, deniedPid>>

\* 100 ms have passed: every drain interval may fire again
PeriodEnds ==
  /\ drained # {} \/ deliveredInPeriod # 0
  /\ drained' = {}
  /\ deliveredInPeriod' = 0
  /\ beforeClassify' = nodes
  /\ UNCHANGED <<now, started, storeVars, bonjourVars, packetVars, pub, lastObserved,
                 removedPending, lifeFirst, everFirst, view, lastFull, trafficVars, controlVars, auxVars,
                 pendingStarts, available, hasPermission, lastError, drainTimer,
                 drainIntervals, onEventCallback, events, pendingEvents, delivered, deniedPid>>

NextCapture ==
  \/ CaptureStartRequest
  \/ \E ok \in BOOLEAN, perm \in BOOLEAN : CaptureStartContinue(ok, perm)
  \/ CaptureStop
  \/ \E pid \in DOMAIN procs : CaptureExit(pid)
  \/ KillTimerFire
  \/ \E pid \in DOMAIN procs, n \in ChunkSizes : StdoutData(pid, n, MaxLines)
  \/ \E pid \in DOMAIN procs : StderrDenied(pid)
  \/ \E i \in drainIntervals : Drain(i)
  \/ PeriodEnds

\* the packet pipeline: capture processes, timers and event delivery
SpecCapture == Init /\ [][NextCapture]_vars


\* the timeout of stop() fires: SIGKILL to the process stop() had signalled
KillTimeout ==
  /\ killTimer # 0
  /\ hardKilled' = hardKilled \cup ({killTimer} \cap DOMAIN procs)
  /\ killTimer' = 0
  /\ beforeClassify' = nodes
  /\ UNCHANGED <<now, started, storeVars, bonjourVars, isCapturing, proc, procs, spawned,
                 enrichmentTimer, currentOnUpdate, thisDeviceIps, aggVars, pub, lastObserved,
                 removedPending, lifeFirst, everFirst, view, lastFull, trafficVars, controlVars, captureVars,
                 activeInterface, ipIndex, lastEvent, failedCalls, startArgs, lateVars>>

NextSession ==
  \/ CaptureStartRequest
  \/ \E iface \in Interfaces \cup {Undefined}, valid \in InterfaceLists, def \in DefaultInterfaces :
       CaptureStartOn(iface, valid, def, TRUE)
  \/ CaptureStop
  \/ \E pid \in DOMAIN procs : CaptureExit(pid)
  \/ KillTimeout

\* capture sessions: the interface, the processes and the kill timeout
SpecSession == Init /\ [][NextSession]_vars

\* ---- correlation of packets to entities ----

Null == "null"
\* an address outside the network's entities
OuterIp == "8.8.8.8"
CorrelatedIps == Ips \cup {OuterIp}

\* this.ipIndex.get(ip) ?? null
indexGet(ix, ip) == IF ip \in DOMAIN ix THEN ix[ip] ELSE Null

\* (faulty variant: the source side wins whenever it resolves)
correlateSrcFirst(ix, srcIp, dstIp) ==
  IF indexGet(ix, srcIp) # Null THEN indexGet(ix, srcIp) ELSE indexGet(ix, dstIp)

\* parseLine(): the nodeId of the event of a packet from srcIp to dstIp
correlate(ix, srcIp, dstIp) ==
  LET srcNodeId == indexGet(ix, srcIp)
      dstNodeId == indexGet(ix, dstIp)
  IN IF srcNodeId # Null /\ srcNodeId # HostId THEN srcNodeId
     ELSE IF dstNodeId # Null /\ dstNodeId # HostId THEN dstNodeId
     ELSE IF srcNodeId # Null THEN srcNodeId ELSE dstNodeId

\* the stdout handler of the tshark pid for one line of a packet from srcIp to dstIp with
\* the protocol and the frame length, while fewer than bound lines have been parsed:
\* parseLine() correlates it, records the event and counts it
StdoutPacket(pid, srcIp, dstIp, proto, len, bound) ==
  LET agg == aggregate([protocols |-> protocolsByIp, bytes |-> bytesByIp, packets |-> packetsByIp],
                       <<srcIp, dstIp>>, proto, len)
  IN /\ pid \in DOMAIN procs
     /\ eventSeq < bound
     /\ lastEvent' = [srcIp |-> srcIp, dstIp |-> dstIp, nodeId |-> correlate(ipIndex, srcIp, dstIp),
                      protocol |-> proto, length |-> len]
     /\ eventSeq' = eventSeq + 1
     /\ events' = ringPush(events, eventSeq + 1)
     /\ pendingEvents' = Append(pendingEvents, eventSeq + 1)
     /\ protocolsByIp' = agg.protocols
     /\ bytesByIp' = agg.bytes
     /\ packetsByIp' = agg.packets
     /\ beforeClassify' = nodes
     /\ UNCHANGED <<now, started, storeVars, bonjourVars, procVars, thisDeviceIps, pub,
                    lastObserved, removedPending, lifeFirst, everFirst, view, lastFull,
                    trafficVars, controlVars, activeInterface, ipIndex, hardKilled,
                    failedCalls, startArgs, lateVars, pendingStarts, available, hasPermission,
                    lastError, drainTimer, drainIntervals, drained, onEventCallback,
                    delivered, deliveredInPeriod, deniedPid>>

\* the same for a TLS packet of 1500 bytes
StdoutLine(pid, srcIp, dstIp) == StdoutPacket(pid, srcIp, dstIp, "TLS", 1500, MaxPackets)

\* the store is filled, captures are started and stopped, and tshark prints packets between
\* the Host, the neighbour and an outer address; the Link-Layer scan runs between captures
NextCorrelate ==
  \/ Start
  \/ \E present \in SUBSET LanIds, gw \in BOOLEAN : ~isCapturing /\ RunArp(present, gw)
  \/ \E id \in BonjourIds : BonjourService(id)
  \/ CaptureStartRequest
  \/ CaptureStartContinue(TRUE, TRUE)
  \/ CaptureStop
  \/ \E pid \in DOMAIN procs, srcIp \in CorrelatedIps, dstIp \in CorrelatedIps :
       StdoutLine(pid, srcIp, dstIp)

\* the packets of a capture and the entities they are correlated to
SpecCorrelate == Init /\ [][NextCorrelate]_vars

\* the store is filled, also with a service of the Host itself, captures are started and
\* stopped and tshark prints packets; the Link-Layer scan runs between captures
NextIndex ==
  \/ Start
  \/ \E present \in SUBSET LanIds, gw \in BOOLEAN : ~isCapturing /\ RunArp(present, gw)
  \/ \E id \in BonjourIds \cup {OwnServiceId} : BonjourService(id)
  \/ (started /\ CaptureStartRequest)
  \/ CaptureStartContinue(TRUE, TRUE)
  \/ CaptureStop
  \/ \E pid \in DOMAIN procs, srcIp \in CorrelatedIps, dstIp \in CorrelatedIps :
       StdoutLine(pid, srcIp, dstIp)

\* the index and the per-IP counters of a capture in a network that shows the Host's address
SpecIndex == Init /\ [][NextIndex]_vars

\* packets counted in the specification of the counters, their protocols and frame lengths
MaxCounted == 2
CountedProtocols == {"TLS", "DNS"}
CountedLens == {60, 1500}

\* captures are started and stopped after the Host was seeded, and tshark prints packets
\* between the Host, the neighbour and an outer address
NextCount ==
  \/ Start
  \/ (started /\ CaptureStartRequest)
  \/ CaptureStartContinue(TRUE, TRUE)
  \/ CaptureStop
  \/ \E pid \in DOMAIN procs, srcIp \in CorrelatedIps, dstIp \in CorrelatedIps,
        proto \in CountedProtocols, len \in CountedLens :
       StdoutPacket(pid, srcIp, dstIp, proto, len, MaxCounted)

\* the per-IP counters of the captures
SpecCount == Init /\ [][NextCount]_vars

\* ---- the reverse lookups of the Socket collector ----

\* scan() calls of the Socket collector in progress at a time, and reverse() calls of one
\* host the model follows
MaxConnScans == 2
MaxLookups == 2
ScanSlots == 1..MaxConnScans
\* the first hostname reverse() returns
Hostname == "host.example.com"

sessionVars == <<activeInterface, ipIndex, lastEvent, hardKilled, failedCalls, startArgs>>
\* what the actions of the Socket collector's scan() leave alone
dnsUnchanged == <<now, started, storeVars, bonjourVars, packetVars, pub, lastObserved,
                  removedPending, lifeFirst, everFirst, view, lastFull, trafficVars,
                  controlVars, captureVars, sessionVars, osVars>>

\* this.dnsCache.get(remoteHost) ?? undefined
cacheGet(cache, h) == IF h \in DOMAIN cache /\ cache[h] # Null THEN cache[h] ELSE Undefined

\* (faulty variant: the lookups that are pending are started again)
resolveNewIpsNotCached(hosts, cache, pending) == {h \in hosts : h \notin DOMAIN cache}

\* resolveNewIps(): the hosts a lookup is started for
resolveNewIps(hosts, cache, pending) ==
  {h \in hosts : h \notin DOMAIN cache /\ h \notin pending}

\* (faulty variant: the hostnames are read from the cache when scan() returns)
resultOfCacheNow(scan, cache) == [h \in scan.hosts |-> cacheGet(cache, h)]

\* the resolvedHostname of the nodes scan() returns: what the parse has put there
resultOf(scan, cache) == scan.resolved

\* scan() is called (by the interval or by scanNow()) and waits for lsof
ConnScanStart(k) ==
  /\ k \notin DOMAIN connScans
  /\ connScans' = Put(connScans, k, [phase |-> "lsof", hosts |-> {}, resolved |-> Empty,
                                     cache |-> Empty])
  /\ beforeClassify' = nodes
  /\ UNCHANGED <<dnsCache, pendingLookups, lookups, finishing, lastResult, dnsUnchanged>>

\* lsof has answered (nothing when it failed): scan() parses the sockets of the remote
\* hosts, reads the cache for each node and waits for ps in enrichProcessNames()
ConnScanParse(k, hosts) ==
  /\ k \in DOMAIN connScans /\ connScans[k].phase = "lsof"
  /\ connScans' = Put(connScans, k, [phase |-> "ps", hosts |-> hosts,
                                     resolved |-> [h \in hosts |-> cacheGet(dnsCache, h)],
                                     cache |-> dnsCache])
  /\ beforeClassify' = nodes
  /\ UNCHANGED <<dnsCache, pendingLookups, lookups, finishing, lastResult, dnsUnchanged>>

\* ps has answered: scan() calls resolveNewIps() and returns its nodes
ConnScanReturn(k) ==
  /\ k \in DOMAIN connScans /\ connScans[k].phase = "ps"
  /\ LET newIps == resolveNewIps(connScans[k].hosts, dnsCache, pendingLookups)
     IN /\ \A h \in newIps : lookups[h] + finishing[h] < MaxLookups
        /\ pendingLookups' = pendingLookups \cup newIps
        /\ lookups' = [h \in RemoteHosts |-> IF h \in newIps THEN lookups[h] + 1 ELSE lookups[h]]
  /\ lastResult' = [slot |-> k, resolved |-> resultOf(connScans[k], dnsCache),
                    cache |-> connScans[k].cache]
  /\ connScans' = [j \in (DOMAIN connScans) \ {k} |-> connScans[j]]
  /\ beforeClassify' = nodes
  /\ UNCHANGED <<dnsCache, finishing, dnsUnchanged>>

\* a reverse() of the host settles: then() stores the first hostname, catch() stores null
LookupSettles(h, ok) ==
  /\ lookups[h] > 0
  /\ lookups' = [lookups EXCEPT ![h] = @ - 1]
  /\ finishing' = [finishing EXCEPT ![h] = @ + 1]
  /\ dnsCache' = Put(dnsCache, h, IF ok THEN Hostname ELSE Null)
  /\ beforeClassify' = nodes
  /\ UNCHANGED <<pendingLookups, connScans, lastResult, dnsUnchanged>>

\* the finally() handler of a settled reverse() of the host
LookupFinally(h) ==
  /\ finishing[h] > 0
  /\ finishing' = [finishing EXCEPT ![h] = @ - 1]
  /\ pendingLookups' = pendingLookups \ {h}
  /\ beforeClassify' = nodes
  /\ UNCHANGED <<dnsCache, lookups, connScans, lastResult, dnsUnchanged>>

NextDns ==
  \/ \E k \in ScanSlots : ConnScanStart(k)
  \/ \E k \in ScanSlots, hosts \in SUBSET RemoteHosts : ConnScanParse(k, hosts)
  \/ \E k \in ScanSlots : ConnScanReturn(k)
  \/ \E h \in RemoteHosts, ok \in BOOLEAN : LookupSettles(h, ok)
  \/ \E h \in RemoteHosts : LookupFinally(h)

\* overlapping scans of the Socket collector and their reverse lookups
SpecDns == Init /\ [][NextDns]_vars

\* stdout lines parsed in the specification of the ring, and the numbers of lines of the
\* chunks tshark writes there
MaxRingLines == 10010
RingChunks == {1000, 1001}

\* one capture is started and stopped at any moment while tshark prints chunk after chunk
NextRing ==
  \/ (spawned = 0 /\ pendingStarts = 0 /\ CaptureStartRequest)
  \/ CaptureStartContinue(TRUE, TRUE)
  \/ (isCapturing /\ CaptureStop)
  \/ \E pid \in DOMAIN procs, n \in RingChunks : StdoutData(pid, n, MaxRingLines)

\* the event ring under a long capture
SpecRing == Init /\ [][NextRing]_vars

\* stdout lines parsed in the specification of the flood, the lines tshark may print before
\* the first drain, and the lines it may print for every event the drain has delivered
MaxFloodLines == 11011
FloodBurst == 1011
FloodRatio == 100

\* one capture with its consumer callback registered: in every 100 ms period tshark
\* prints a chunk of about 1,000 lines and then the drain interval delivers its batch
NextFlood ==
  \/ (spawned = 0 /\ pendingStarts = 0 /\ CaptureStartRequest)
  \/ CaptureStartContinue(TRUE, TRUE)
  \/ \E pid \in DOMAIN procs, n \in RingChunks :
       /\ eventSeq + n <= FloodBurst + FloodRatio * Len(delivered)
       /\ StdoutData(pid, n, MaxFloodLines)
  \/ \E i \in drainIntervals :
       /\ FloodRatio * (Len(delivered) + MAX_EVENTS_PER_DRAIN) <= eventSeq
       /\ Drain(i)
  \/ PeriodEnds

\* the pending queue under an ingress above the drain rate
SpecFlood == Init /\ [][NextFlood]_vars

\* ---- properties ----

IsHost(n) == Has(n, "signalType") /\ n.signalType = "this_device"
Published == pub # NoPub

\* C1: every classifier run leaves lastSeen and status of every entity of the store as they
\* were immediately before the run (beforeClassify), a LAN entity that is classified in the
\* run included
C1_ClassifyKeepsLifecycle ==
  \A id \in DOMAIN beforeClassify :
    /\ id \in DOMAIN nodes
    /\ nodes[id].lastSeen = beforeClassify[id].lastSeen
    /\ nodes[id].status = beforeClassify[id].status

\* C2: an enrichment flush changes at most protocols, totalBytes and totalPackets of an
\* entity; lastSeen and status of every entity are the same after the flush as before it
C2_FlushKeepsLifecycle ==
  [][Flush =>
       /\ DOMAIN nodes' = DOMAIN nodes
       /\ \A id \in DOMAIN nodes :
            \A f \in (DOMAIN nodes[id]) \ {"protocols", "totalBytes", "totalPackets"} :
              f \in DOMAIN nodes'[id] /\ nodes'[id][f] = nodes[id][f]]_vars

\* C3: a non-Host entity that no collector result has contained since time T is not in the
\* store after a lifecycle tick that runs later than T + 90 s, and neither is a relation of it
C3_UnreportedIsRemoved ==
  [][LifecycleTick =>
       \A id \in AllIds \ {HostId} :
         (lastObserved[id] >= 0 /\ now > lastObserved[id] + 90000) =>
           /\ id \notin DOMAIN nodes'
           /\ \A e \in DOMAIN edges' : edges'[e].source # id /\ edges'[e].target # id]_vars

\* the status the tick rule of C4 gives an entity of status st and age age
RuleStatus(st, age) ==
  IF age > 60000 /\ st # "expired" THEN "expired"
  ELSE IF age > 30000 /\ st = "active" THEN "stale"
  ELSE st

StatusRank(st) == CASE st = "active" -> 0 [] st = "stale" -> 1 [] st = "expired" -> 2

\* C4: tick applies exactly this rule to every non-Host entity, with age = now - lastSeen:
\* age > 90 s deletes the entity and every relation that has it as source or target;
\* otherwise age > 60 s and status not expired makes it expired; otherwise age > 30 s and
\* status active makes it stale; otherwise the entity is unchanged. No status becomes active
\* and none moves backward; nothing else of the store changes.
C4_TickRule ==
  [][LifecycleTick =>
       /\ DOMAIN nodes' \subseteq DOMAIN nodes
       /\ \A id \in DOMAIN nodes :
            LET n == nodes[id]
                age == now - n.lastSeen
            IN IF IsHost(n) THEN id \in DOMAIN nodes' /\ nodes'[id] = n
               ELSE IF age > 90000
                 THEN /\ id \notin DOMAIN nodes'
                      /\ \A e \in DOMAIN edges' : edges'[e].source # id /\ edges'[e].target # id
               ELSE /\ id \in DOMAIN nodes'
                    /\ nodes'[id] = [n EXCEPT !.status = RuleStatus(n.status, age)]
                    /\ StatusRank(nodes'[id].status) >= StatusRank(n.status)
                    /\ (nodes'[id].status = "active" => n.status = "active")
       /\ \A e \in DOMAIN edges :
            IF edges[e].source \in DOMAIN nodes' /\ edges[e].target \in DOMAIN nodes'
              THEN e \in DOMAIN edges' /\ edges'[e] = edges[e]
              ELSE e \notin DOMAIN edges'
       /\ DOMAIN edges' \subseteq DOMAIN edges]_vars

\* C4 witness: a tick has removed one entity and made another one stale
C4_Witness ==
  /\ Published /\ pub.type = "node_update" /\ pub.removed # {}
  /\ \E id \in DOMAIN pub.nodes : pub.nodes[id].status = "stale"
  /\ nodes = [id \in DOMAIN pub.nodes |-> nodes[id]]

\* C5 (as stated): after a tick at time t the store holds no non-Host entity whose lastSeen
\* is less than or equal to t - 90 s
C5_NoneAtOrBeyondRemoveAge ==
  [][LifecycleTick =>
       \A id \in DOMAIN nodes' :
         ~IsHost(nodes'[id]) => ~(nodes'[id].lastSeen <= now - 90000)]_vars

\* C5 (amended): after a tick at time t the store holds no non-Host entity whose lastSeen
\* is less than t - 90 s; an entity whose lastSeen is exactly t - 90 s stays
C5_NoneBeyondRemoveAge ==
  [][LifecycleTick =>
       \A id \in DOMAIN nodes' :
         ~IsHost(nodes'[id]) => ~(nodes'[id].lastSeen < now - 90000)]_vars

\* C5 witness: a tick has removed an entity and kept one whose age is exactly 90 s
C5_Witness ==
  /\ Published /\ pub.type = "node_update" /\ pub.removed # {}
  /\ \E id \in DOMAIN nodes : ~IsHost(nodes[id]) /\ nodes[id].lastSeen = now - 90000
  /\ \A id \in DOMAIN pub.nodes : id \in DOMAIN nodes /\ pub.nodes[id].status = nodes[id].status

\* C6: once start() has seeded it, the store holds exactly one Host entity, with id
\* this-device and status active, in every state and in every published payload
C6_OneActiveHost ==
  started =>
    /\ {id \in DOMAIN nodes : IsHost(nodes[id])} = {HostId}
    /\ nodes[HostId].status = "active"
    /\ Published =>
         /\ {id \in DOMAIN pub.nodes : IsHost(pub.nodes[id])} = {HostId}
         /\ pub.nodes[HostId].status = "active"

\* C6 witness: the Host is older than the remove threshold and a tick has removed another
\* entity
C6_Witness ==
  /\ started /\ Published /\ pub.removed # {}
  /\ now - nodes[HostId].lastSeen > removeAfterMs
  /\ HostId \in DOMAIN pub.nodes

\* C7: in every published payload the source and the target of every relation are ids of
\* entities of the same payload; the store itself is closed after every handler, so an
\* entity is never removed without the relations that reference it
C7_RelationsClosed ==
  /\ \A e \in DOMAIN edges :
       edges[e].source \in DOMAIN nodes /\ edges[e].target \in DOMAIN nodes
  /\ Published =>
       \A e \in DOMAIN pub.edges :
         pub.edges[e].source \in DOMAIN pub.nodes /\ pub.edges[e].target \in DOMAIN pub.nodes

\* C7 witness: an Update that reports a removal and still carries a relation
C7_Witness ==
  Published /\ pub.type = "node_update" /\ pub.removed # {} /\ DOMAIN pub.edges # {}

\* C8: an id listed in removed[] of an Update is not among the entities of that Update nor
\* of any later payload until a collector result that contains the id is applied again
\* (removedPending: the ids listed in a removed[] and not contained in a result since)
C8_RemovedStayAbsent ==
  Published => (DOMAIN pub.nodes) \cap removedPending = {}

\* C8 witness: a FullState published after an Update that listed an id still not re-observed
C8_Witness ==
  Published /\ pub.type = "full_state" /\ removedPending # {}

\* C9 (as stated): an id has the same firstSeen in all published payloads in which it
\* appears (everFirst: the firstSeen of the first payload that contained the id)
C9_FirstSeenConstantForever ==
  Published => \A id \in DOMAIN pub.nodes : pub.nodes[id].firstSeen = everFirst[id]

\* C9 (amended): an id has the same firstSeen in all published payloads in which it appears
\* between one creation of the entity and its removal by tick (lifeFirst: the firstSeen of
\* the first payload that contained the id since the entity was last removed)
C9_FirstSeenConstantPerLife ==
  Published => \A id \in DOMAIN pub.nodes : pub.nodes[id].firstSeen = lifeFirst[id]

\* C9 witness: a FullState contains an entity that was removed and created again, after the
\* Update that published its second creation
C9_Witness ==
  /\ Published /\ pub.type = "full_state"
  /\ \E id \in DOMAIN pub.nodes : everFirst[id] # lifeFirst[id] /\ lifeFirst[id] # -1

\* C10: for two consecutive published payloads and an id in both, lastSeen in the later one
\* is greater than or equal to lastSeen in the earlier one
C10_LastSeenMonotonic ==
  [][(Published /\ (pub') # NoPub) =>
       \A id \in (DOMAIN pub.nodes) \cap (DOMAIN (pub').nodes) :
         (pub').nodes[id].lastSeen >= pub.nodes[id].lastSeen]_vars

\* C10 witness: a payload carries a non-Host entity observed again after its creation
C10_Witness ==
  /\ Published
  /\ \E id \in DOMAIN pub.nodes :
       /\ ~IsHost(pub.nodes[id])
       /\ pub.nodes[id].lastSeen > pub.nodes[id].firstSeen
       /\ lastObserved[id] = pub.nodes[id].lastSeen

\* the objects a collector can hand to upsertNode in the current state
Incoming ==
  {ArpNode(id, gw, now) : id \in LanIds, gw \in BOOLEAN}
    \cup {BonjourNode(id, now) : id \in BonjourIds}
    \cup Values(discoveredNodes)

LifecycleFields == {"firstSeen", "lastSeen", "status"}

\* C11: upserting the same entity twice (at t1, then at t2) leaves the store as upserting it
\* once at t2 does: the same ids, every other entity untouched, the fields of the object
\* merged over those of the existing entity, status active and lastSeen = t2; firstSeen is
\* that of the first creation (the existing entity's, or t1 when the first call created it).
\* upsertNode does not touch the relations.
C11_UpsertTwice ==
  \A e \in Incoming, t1 \in {now}, t2 \in {now, now + 30000} :
    LET once == upsertNode(nodes, e, t2)
        twice == upsertNode(upsertNode(nodes, e, t1), e, t2)
        was == e.id \in DOMAIN nodes
    IN /\ DOMAIN twice = DOMAIN once
       /\ DOMAIN once = (DOMAIN nodes) \cup {e.id}
       /\ \A id \in (DOMAIN twice) \ {e.id} : twice[id] = nodes[id] /\ once[id] = nodes[id]
       /\ DOMAIN twice[e.id] = DOMAIN once[e.id]
       /\ \A f \in (DOMAIN twice[e.id]) \ {"firstSeen"} : twice[e.id][f] = once[e.id][f]
       /\ \A f \in (DOMAIN e) \ LifecycleFields : twice[e.id][f] = e[f]
       /\ was => (DOMAIN nodes[e.id]) \subseteq (DOMAIN twice[e.id])
       /\ was => \A f \in (DOMAIN nodes[e.id]) \ (DOMAIN e) : twice[e.id][f] = nodes[e.id][f]
       /\ twice[e.id].status = "active"
       /\ twice[e.id].lastSeen = t2
       /\ twice[e.id].firstSeen = IF was THEN nodes[e.id].firstSeen ELSE t1

\* C11 witness: a classified LAN entity has been upserted again by a later collector result
C11_Witness ==
  \E id \in DOMAIN nodes :
    /\ Has(nodes[id], "deviceType")
    /\ nodes[id].lastSeen > nodes[id].firstSeen
    /\ lastObserved[id] = nodes[id].lastSeen

HasRate(obj) == (DOMAIN obj) \cap RateFields # {}

\* C12: no entity and no relation of the store carries bytesPerSec, bytesInPerSec or
\* bytesOutPerSec; in a published payload an entity carries them only if its id is a key of
\* the rates, and a relation only if its source or its target is one
C12_RatesOnlyAtBoundary ==
  /\ \A id \in DOMAIN nodes : ~HasRate(nodes[id])
  /\ \A e \in DOMAIN edges : ~HasRate(edges[e])
  /\ Published =>
       /\ \A id \in DOMAIN pub.nodes : HasRate(pub.nodes[id]) => id \in DOMAIN rates
       /\ \A e \in DOMAIN pub.edges :
            HasRate(pub.edges[e]) =>
              pub.edges[e].source \in DOMAIN rates \/ pub.edges[e].target \in DOMAIN rates

\* C12 witness: a payload in which the connection and its relation carry a rate and the Host
\* does not, while the store's connection carries none
C12_Witness ==
  /\ Published
  /\ ConnId \in DOMAIN pub.nodes /\ HasRate(pub.nodes[ConnId])
  /\ ~HasRate(pub.nodes[HostId])
  /\ HasRate(pub.edges[EdgeId(ConnId)])
  /\ ConnId \in DOMAIN nodes /\ ~HasRate(nodes[ConnId])

NowCalls(name) == {Call(s, "now") : s \in {x \in Scanners : name \in {x, "all"}}}

\* C13: in a step taken while paused, no scan of a timer comes in flight; a step of the
\* lifecycle interval applies the tick rule, a step of the mDNS callback applies its result
\* and publishes it, a step of the packet pipeline counts the packet or flushes the counters
\* into the store, and a step of scanNow(name) puts its scans in flight
C13_PauseSuppressesTimersOnly ==
  [][paused =>
       /\ \A c \in inflight' \ inflight : c.origin # "timer"
       /\ TickTimer => nodes' = tick(nodes, edges, now).nodes
       /\ \A id \in BonjourIds :
            BonjourCallback(id) =>
              /\ id \in DOMAIN nodes' /\ nodes'[id].lastSeen = now
              /\ pub' = Payload("node_update", nodes', edges', {}, rates)
       /\ \A pid \in DOMAIN procs, flow \in ControlFlows :
            ParseLine(pid, flow[1], flow[2], "TLS", 1500) => eventSeq' = eventSeq + 1
       /\ (Flush /\ currentOnUpdate) => nodes' = enrichProtocols(nodes, now)
       /\ \A name \in ScanNowNames : ScanNow(name) => NowCalls(name) \subseteq inflight'
  ]_vars

\* C13 witness: paused, with a scan of scanNow() in flight that was called during the pause,
\* no scan of a timer in flight, the intervals registered, the browsers and the capture alive
C13_Witness ==
  /\ paused /\ scanNowCalled /\ timers /\ browsing /\ isCapturing
  /\ Call("arp", "now") \in inflight
  /\ \A c \in inflight : c.origin = "now"
  /\ BonjourId \in DOMAIN nodes /\ nodes[BonjourId].lastSeen = now /\ now > 0

\* C14: while paused and scanNow() has not been called since pause(), no runScanner() call
\* of a polled collector hands its result to the store and to the consumer
C14_NoPolledResultWhilePaused ==
  [][(paused /\ ~scanNowCalled) => \A c \in inflight \ inflight' : c.origin = "now"]_vars

\* C15: nothing is published before the window is ready and the initial scans have
\* returned, and the first payload published is the full_state
C15_FirstPublicationGated ==
  [][pub' # pub =>
       /\ windowReady' /\ scannerReady'
       /\ (pub = NoPub => pub'.type = "full_state")]_vars

\* C16: after Orchestrator.stop() no payload is published
C16_NothingAfterStop == [][stopCalled => pub' = pub]_vars

Unsignalled == {p \in DOMAIN procs : procs[p] = "running"}

\* C17: at most one capture process that has not been sent a termination signal exists
C17_OneLiveCapture == Cardinality(Unsignalled) <= 1

DeniedStatus ==
  [available |-> TRUE, hasPermission |-> FALSE, capturing |-> FALSE, error |-> Remediation]

\* C18: from the handling of a "permission denied" line until the next start(), the status
\* is available, no permission, not capturing, with the remediation message; the process
\* that wrote the line has been sent termination, no flush or drain interval is left, and
\* no event is delivered
C18_DeniedStopsPipeline ==
  [][deniedPid' # 0 =>
       /\ getStatus' = DeniedStatus
       /\ deniedPid' \notin Unsignalled'
       /\ ~enrichmentTimer' /\ drainTimer' = 0 /\ drainIntervals' = {}
       /\ deniedPid # 0 => delivered' = delivered]_vars

\* C19: at most 10 events are delivered in a 100 ms period, and the events delivered so far
\* followed by the pending ones are the accepted events, each once, in arrival order
C19_DrainRate ==
  /\ deliveredInPeriod <= MAX_EVENTS_PER_DRAIN
  /\ delivered \o pendingEvents = [i \in 1..eventSeq |-> i]

C21_InterfaceSelection ==
  [][\A iface \in Interfaces, valid \in InterfaceLists, def \in DefaultInterfaces :
       CaptureStartOn(iface, valid, def, TRUE) =>
         /\ isCapturing'
         /\ activeInterface' = IF iface \in valid THEN iface ELSE def]_vars

\* C27: a capture process that stop() sent termination and that has not exited has its hard
\* kill pending or has been sent it, also after further calls of stop() and start(); stop()
\* leaves the drain timer and the flush timer cleared
C27_KillEscalation ==
  [][/\ \A p \in DOMAIN procs' :
          procs'[p] = "terminating" => (killTimer' = p \/ p \in hardKilled')
     /\ CaptureStop => (~enrichmentTimer' /\ drainTimer' = 0)]_vars

C23_DeviceTypeStays ==
  [][\A id \in (DOMAIN nodes) \cap (DOMAIN nodes') :
       (nodes[id].signalType = "lan" /\ Truthy(nodes[id], "deviceType")) =>
         /\ Has(nodes'[id], "deviceType")
         /\ nodes'[id].deviceType = nodes[id].deviceType]_vars

\* C23 witness: a classified LAN entity that a Link-Layer result has upserted again, after
\* the mDNS service that had classified it was removed
C23_Witness ==
  /\ LanId \in DOMAIN nodes /\ Truthy(nodes[LanId], "deviceType")
  /\ lastObserved[LanId] = now /\ nodes[LanId].firstSeen < now
  /\ BonjourId \notin DOMAIN nodes /\ BonjourId \in removedPending

\* C25: a lifecycle tick publishes an Update exactly when it removed an entity or changed a
\* status; the Update lists in removed[] every entity that was past the remove threshold,
\* all of them in the one Update; with only the Host in the store the tick publishes nothing
C25_TickPublishes ==
  [][LifecycleTick =>
       LET gone == (DOMAIN nodes) \ (DOMAIN nodes')
           changed == \E id \in (DOMAIN nodes) \cap (DOMAIN nodes') :
                        nodes'[id].status # nodes[id].status
           past == {id \in DOMAIN nodes : ~IsHost(nodes[id])
                                            /\ now - nodes[id].lastSeen > removeAfterMs}
       IN /\ gone = past
          /\ IF gone # {} \/ changed
               THEN /\ pub' # pub
                    /\ pub'.type = "node_update"
                    /\ pub'.removed = past
                    /\ DOMAIN pub'.nodes = DOMAIN nodes'
               ELSE pub' = pub
          /\ (DOMAIN nodes = {HostId}) => pub' = pub]_vars

\* C25 witness: the Update of a tick that removed two entities at once
C25_Witness ==
  /\ Published /\ pub.type = "node_update"
  /\ pub.removed = NonHostIds
  /\ DOMAIN nodes = {HostId}
  /\ removedPending = NonHostIds

\* C24: a runScanner() call whose scan failed leaves the entities and the relations of the
\* store as they were, ends without touching the intervals, the pause flag or the other
\* calls in flight, and the interval of a collector whose scan has failed still dispatches
\* the collector
C24_FailedScanIsEmpty ==
  [][/\ \A c \in inflight :
          (ScanFails(c) \/ ScanRejects(c)) =>
            /\ nodes' = nodes /\ edges' = edges
            /\ timers' = timers /\ browsing' = browsing /\ paused' = paused
            /\ inflight' = inflight \ {c}
     /\ \A s \in Scanners :
          (TimerFire(s) /\ ~paused /\ (\E c \in failedCalls : c.scanner = s)) =>
            Call(s, "timer") \in inflight']_vars

\* C24 witness: the Link-Layer scan of the interval has failed while the store held the
\* neighbour, which it still holds, and the interval has dispatched the collector again
C24_Witness ==
  /\ Call("arp", "timer") \in failedCalls
  /\ Call("arp", "timer") \in inflight
  /\ LanId \in DOMAIN nodes /\ nodes[LanId].lastSeen < now
  /\ timers

\* C26: a handler of the writer side (a collector's result, an mDNS callback, the tick, the
\* flush) runs as one step, so the payload it publishes holds exactly the entities and the
\* relations of the store as the handler left them, each with every field of the store
C26_PayloadIsStore ==
  [][pub' # pub =>
       /\ DOMAIN pub'.nodes = DOMAIN nodes'
       /\ \A id \in DOMAIN nodes' : \A k \in DOMAIN Serialize(nodes)'[id] :
            pub'.nodes[id][k] = Serialize(nodes)'[id][k]
       /\ DOMAIN pub'.edges = DOMAIN edges'
       /\ \A e \in DOMAIN edges' : \A k \in DOMAIN edges'[e] :
            pub'.edges[e][k] = edges'[e][k]]_vars

\* C26 witness: an Update published after a Link-Layer result, an mDNS callback and a flush
\* have all written to the store
C26_Witness ==
  /\ pub.type = "node_update"
  /\ LanId \in DOMAIN pub.nodes
  /\ Has(pub.nodes[LanId], "protocols") /\ Truthy(pub.nodes[LanId], "deviceType")
  /\ pub.nodes = Serialize(nodes)

\* C28: the pending queue of the drain never holds more events than the ring has places
C28_PendingBounded == Len(pendingEvents) <= MAX_EVENTS

\* the clamped deltas of key k between the previous sample and the sample
ClampedIn(sample, k) == Max(0, sample[k].bytesIn - prevSample[k].bytesIn)
ClampedOut(sample, k) == Max(0, sample[k].bytesOut - prevSample[k].bytesOut)
\* the keys of both samples whose clamped deltas sum to more than zero
RateKeys(sample) ==
  {k \in (DOMAIN sample) \cap (DOMAIN prevSample) : ClampedIn(sample, k) + ClampedOut(sample, k) > 0}
\* a Throughput scan that is the first one publishes no rate
FirstScanHasNoRate ==
  prevTimestamp < 0 =>
    /\ DOMAIN rates' = {}
    /\ \A id \in DOMAIN pub'.nodes : ~HasRate(pub'.nodes[id])
    /\ \A e \in DOMAIN pub'.edges : ~HasRate(pub'.edges[e])

\* C29: after a Throughput scan with a previous sample taken elapsed > 0 earlier, the rate
\* map has exactly the keys of both samples whose clamped deltas sum to more than zero,
\* each with the clamped deltas over elapsed as bytesInPerSec and bytesOutPerSec and their
\* sum as bytesPerSec; the first scan publishes no rate
C29_RatesOfClampedDeltas ==
  [][\A sample \in RateSamples :
       RunTraffic(sample) =>
         /\ FirstScanHasNoRate
         /\ (prevTimestamp >= 0 /\ now > prevTimestamp) =>
              /\ DOMAIN rates' = RateKeys(sample)
              /\ \A k \in RateKeys(sample) :
                   /\ rates'[k].bytesInPerSec = (ClampedIn(sample, k) * 1000) \div (now - prevTimestamp)
                   /\ rates'[k].bytesOutPerSec = (ClampedOut(sample, k) * 1000) \div (now - prevTimestamp)
                   /\ rates'[k].bytesPerSec = rates'[k].bytesInPerSec + rates'[k].bytesOutPerSec]_vars

\* C30: the nodeId of the event of an accepted packet is the entity the index holds for
\* src when that is not the Host, else the entity it holds for dst when that is not the
\* Host, else the Host when the index holds either address, else null
C30_NodeCorrelation ==
  [][eventSeq' # eventSeq =>
       LET src == lastEvent'.srcIp
           dst == lastEvent'.dstIp
       IN lastEvent'.nodeId =
            IF src \in DOMAIN ipIndex /\ ipIndex[src] # HostId THEN ipIndex[src]
            ELSE IF dst \in DOMAIN ipIndex /\ ipIndex[dst] # HostId THEN ipIndex[dst]
            ELSE IF src \in DOMAIN ipIndex \/ dst \in DOMAIN ipIndex THEN HostId
            ELSE Null]_vars

\* C30 witness: a packet from the Host to the neighbour was correlated to an entity of the
\* neighbour's address
C30_Witness ==
  /\ lastEvent # NoEvent
  /\ lastEvent.srcIp = HostIp /\ lastEvent.dstIp = LanIp
  /\ HostIp \in DOMAIN ipIndex /\ ipIndex[HostIp] = HostId
  /\ lastEvent.nodeId \in NonHostIds

\* C31: after a rebuild of the index every address of the Host's interfaces maps to
\* this-device, whatever other entities of the store carry the address
C31_HostIpsMapToSentinel ==
  [][ipIndex' # ipIndex =>
       \A ip \in refreshIndex(nodes') : ip \in DOMAIN ipIndex' /\ ipIndex'[ip] = HostId]_vars

\* the addresses of the Host's interfaces
HostIps == refreshIndex(nodes)
\* the count of the protocol for the address, the bytes and the packets of the address
CountOf(byIp, ip, proto) ==
  IF ip \in DOMAIN byIp /\ proto \in DOMAIN byIp[ip] THEN byIp[ip][proto] ELSE 0
TotalOf(byIp, ip) == IF ip \in DOMAIN byIp THEN byIp[ip] ELSE 0
\* the sum of the counts of a record of protocols
RECURSIVE SumCounts(_)
SumCounts(protos) ==
  IF DOMAIN protos = {} THEN 0
  ELSE LET p == CHOOSE x \in DOMAIN protos : TRUE
       IN protos[p] + SumCounts([q \in (DOMAIN protos) \ {p} |-> protos[q]])
\* no address of the Host is a key of the counters, and the packets of an address are the
\* sum of its protocol counts
CountersAreSound ==
  /\ HostIps \cap (DOMAIN protocolsByIp \cup DOMAIN bytesByIp \cup DOMAIN packetsByIp) = {}
  /\ DOMAIN protocolsByIp = DOMAIN packetsByIp /\ DOMAIN bytesByIp = DOMAIN packetsByIp
  /\ \A ip \in DOMAIN packetsByIp : packetsByIp[ip] = SumCounts(protocolsByIp[ip])
\* the packet of lastEvent' has added n to the counters of the address ip
PacketAdds(ip, n) ==
  /\ \A proto \in CountedProtocols :
       CountOf(protocolsByIp', ip, proto) =
         CountOf(protocolsByIp, ip, proto) + (IF proto = lastEvent'.protocol THEN n ELSE 0)
  /\ TotalOf(bytesByIp', ip) = TotalOf(bytesByIp, ip) + n * lastEvent'.length
  /\ TotalOf(packetsByIp', ip) = TotalOf(packetsByIp, ip) + n

C33_OneLookupPerHost ==
  /\ [](\A h \in RemoteHosts : lookups[h] <= 1)
  /\ [](\A k \in DOMAIN connScans : connScans[k].phase = "ps" => ENABLED ConnScanReturn(k))
  /\ [][/\ \A h \in RemoteHosts :
            lookups'[h] > lookups[h] => h \notin DOMAIN dnsCache /\ lookups[h] = 0
        /\ lastResult' # lastResult =>
            \A h \in DOMAIN lastResult'.resolved :
              lastResult'.resolved[h] = cacheGet(lastResult'.cache, h)]_vars

\* C33 witness: a scan has returned with a host unresolved while the lookup another scan
\* started for the host was in flight, and the cache has got the hostname since
C33_Witness ==
  /\ lastResult # NoResult
  /\ \E h \in DOMAIN lastResult.resolved :
       /\ lastResult.resolved[h] = Undefined
       /\ h \in pendingLookups
       /\ h \in DOMAIN dnsCache /\ dnsCache[h] = Hostname
       /\ h \notin DOMAIN lastResult.cache


\* ---- the OS fingerprinting ----

\* confidences in hundredths: 0.45, 0.3 (ttl), 0.4 (oui), 0.5 (hostname), and the 1.0 of
\* Math.min(1.0, bestScore)
CONFIDENCE_THRESHOLD == 45
TtlConfidence == 30
OuiConfidence == 40
HostnameConfidence == 50
FullConfidence == 100

\* signals of one infer() call, and TTL samples of one gatherTtlSignals() call
MaxSignals == 3
MaxTtls == 4

OsFamilies == {"linux", "macos", "windows"}
OsSignal(source, family, confidence) ==
  [source |-> source, osFamily |-> family, confidence |-> confidence]
OsSignals ==
  {OsSignal("ttl", f, TtlConfidence) : f \in OsFamilies}
    \cup {OsSignal("oui", f, OuiConfidence) : f \in OsFamilies}
    \cup {OsSignal("hostname", f, HostnameConfidence) : f \in OsFamilies}
SignalLists == UNION {[1..n -> OsSignals] : n \in 0..MaxSignals}

\* the profiles that have a ttlRange, in the order of the database
osProfiles ==
  << [osFamily |-> "windows", ttlRange |-> <<118, 128>>],
     [osFamily |-> "linux", ttlRange |-> <<58, 64>>],
     [osFamily |-> "macos", ttlRange |-> <<58, 64>>] >>
TtlValues == {57, 64, 128}
TtlLists == UNION {[1..n -> TtlValues] : n \in 0..MaxTtls}

\* scores.get(family) after the loop over the signals
RECURSIVE scoreOf(_, _)
scoreOf(signals, family) ==
  IF signals = <<>> THEN 0
  ELSE (IF Head(signals).osFamily = family THEN Head(signals).confidence ELSE 0)
         + scoreOf(Tail(signals), family)

\* the keys of the scores Map, in the order of their insertion
RECURSIVE scoreKeys(_)
scoreKeys(signals) ==
  IF signals = <<>> THEN <<>>
  ELSE LET rest == scoreKeys(SubSeq(signals, 1, Len(signals) - 1))
           last == signals[Len(signals)].osFamily
       IN IF \E i \in DOMAIN rest : rest[i] = last THEN rest ELSE Append(rest, last)

\* the loop over the scores: a family replaces the best one when its score is strictly
\* greater
RECURSIVE pickBest(_, _, _)
pickBest(keys, signals, best) ==
  IF keys = <<>> THEN best
  ELSE LET score == scoreOf(signals, Head(keys))
       IN pickBest(Tail(keys), signals,
                   IF score > best.bestScore
                   THEN [bestFamily |-> Head(keys), bestScore |-> score]
                   ELSE best)

\* (faulty variant: the confidence is the sum itself)
inferUncapped(signals) ==
  IF signals = <<>> THEN NullResult
  ELSE LET best == pickBest(scoreKeys(signals), signals,
                            [bestFamily |-> "unknown", bestScore |-> 0])
       IN IF best.bestScore < CONFIDENCE_THRESHOLD THEN NullResult
          ELSE [osFamily |-> best.bestFamily, deviceCategory |-> "unknown",
                confidence |-> best.bestScore]

\* OsFingerprintEngine.infer()
infer(signals) ==
  IF signals = <<>> THEN NullResult
  ELSE LET best == pickBest(scoreKeys(signals), signals,
                            [bestFamily |-> "unknown", bestScore |-> 0])
           normalizedConfidence == Min(FullConfidence, best.bestScore)
       IN IF normalizedConfidence < CONFIDENCE_THRESHOLD THEN NullResult
          ELSE [osFamily |-> best.bestFamily, deviceCategory |-> "unknown",
                confidence |-> normalizedConfidence]

\* (faulty variant: the samples are left in the order of their arrival)
unsorted(samples) == samples

\* [...ttls].sort((a, b) => a - b)
RECURSIVE sortAscending(_)
sortAscending(samples) ==
  IF samples = <<>> THEN <<>>
  ELSE LET rest == sortAscending(Tail(samples))
           x == Head(samples)
           k == Cardinality({i \in DOMAIN rest : rest[i] < x})
       IN SubSeq(rest, 1, k) \o <<x>> \o SubSeq(rest, k + 1, Len(rest))

\* sorted[Math.floor(sorted.length / 2)], the index counted from 0
medianOf(samples) ==
  LET sorted == sortAscending(samples)
  IN sorted[(Len(sorted) \div 2) + 1]

\* the loop over the profiles: one signal for each profile whose ttlRange holds the median
RECURSIVE ttlMatches(_, _)
ttlMatches(ps, median) ==
  IF ps = <<>> THEN <<>>
  ELSE (IF median >= Head(ps).ttlRange[1] /\ median <= Head(ps).ttlRange[2]
        THEN <<OsSignal("ttl", Head(ps).osFamily, TtlConfidence)>>
        ELSE <<>>) \o ttlMatches(Tail(ps), median)

\* OsEnricher.gatherTtlSignals() of a node that has an address
gatherTtlSignals(samples) ==
  IF samples = <<>> THEN <<>> ELSE ttlMatches(osProfiles, medianOf(samples))

osUnchanged == <<now, started, storeVars, bonjourVars, packetVars, pub, lastObserved,
                 removedPending, lifeFirst, everFirst, view, lastFull, trafficVars,
                 controlVars, captureVars, sessionVars, dnsVars>>

\* infer() is called with a list of signals
Infer(signals) ==
  /\ osSignals' = signals
  /\ osResult' = infer(signals)
  /\ beforeClassify' = nodes
  /\ UNCHANGED <<ttls, medianTtl, ttlSignals, osUnchanged>>

\* gatherTtlSignals() is called for a node whose address has these samples
GatherTtl(samples) ==
  /\ ttls' = samples
  /\ medianTtl' = IF samples = <<>> THEN 0 ELSE medianOf(samples)
  /\ ttlSignals' = gatherTtlSignals(samples)
  /\ beforeClassify' = nodes
  /\ UNCHANGED <<osSignals, osResult, osUnchanged>>

\* the signals of the TTL samples are the only ones of the node: enrich() infers from them
InferFromTtl ==
  /\ Infer(ttlSignals)

NextInfer ==
  \/ \E signals \in SignalLists : Infer(signals)

\* the inference engine on lists of weighted signals
SpecInfer == Init /\ [][NextInfer]_vars

NextTtl ==
  \/ \E samples \in TtlLists : GatherTtl(samples)
  \/ InferFromTtl

\* the TTL samples of an address, their median and the inference from them
SpecTtl == Init /\ [][NextTtl]_vars

MaxOf(S) == CHOOSE x \in S : \A y \in S : y <= x
\* the largest summed weight of a family
LargestSum(signals) == MaxOf({scoreOf(signals, f) : f \in OsFamilies})

\* C34: infer() returns the family with the largest summed weight with confidence
\* min(1, sum), and returns nothing exactly when that confidence is below 0.45; a lone ttl
\* (0.3) or oui (0.4) signal gives nothing, a ttl and an oui signal of one family give that
\* family with confidence 0.7
C34_InferLargestSum ==
  LET largest == LargestSum(osSignals)
      confidence == Min(FullConfidence, largest)
  IN /\ (osResult = NullResult) <=> (confidence < CONFIDENCE_THRESHOLD)
     /\ osResult # NullResult =>
          /\ scoreOf(osSignals, osResult.osFamily) = largest
          /\ osResult.confidence = confidence
     /\ (Len(osSignals) = 1 /\ osSignals[1].source \in {"ttl", "oui"}) => osResult = NullResult
     /\ \A f \in OsFamilies :
          osSignals = <<OsSignal("ttl", f, TtlConfidence), OsSignal("oui", f, OuiConfidence)>>
            => osResult.osFamily = f /\ osResult.confidence = 70

C34_Witness ==
  /\ osSignals = <<OsSignal("ttl", "macos", TtlConfidence),
                   OsSignal("oui", "macos", OuiConfidence)>>
  /\ osResult # NullResult
  /\ osResult.osFamily = "macos"

\* the samples below and up to a value
Below(samples, m) == Cardinality({i \in DOMAIN samples : samples[i] < m})
UpTo(samples, m) == Cardinality({i \in DOMAIN samples : samples[i] <= m})
\* the value is the one of this rank (from 1) among the samples in ascending order
HasRank(samples, m, k) == Below(samples, m) < k /\ k <= UpTo(samples, m)

\* C35 (as stated): the representative TTL is the median of the samples, the lower one of
\* the two middle values when the number of samples is even
C35_LowerMedian ==
  ttls # <<>> => HasRank(ttls, medianTtl, (Len(ttls) + 1) \div 2)

\* C35 (amended): the representative TTL is the median of the samples, the upper one of
\* the two middle values when the number of samples is even
C35_UpperMedian ==
  ttls # <<>> => HasRank(ttls, medianTtl, (Len(ttls) \div 2) + 1)

C35_Witness ==
  /\ ttls = <<128, 64>>
  /\ medianTtl = 128


\* ---- the accumulated services of the mDNS collector ----

\* the services that are announced
AnnouncedIds == BonjourIds \cup {OwnServiceId}

NextBonjour ==
  \/ OrchestratorStart
  \/ \E d \in ControlDelays : Advance(d)
  \/ ScanNow("all")
  \/ \E c \in inflight : ScanReturn(c)
  \/ \E id \in AnnouncedIds : BonjourCallback(id)
  \/ TickTimer
  \/ Stop

\* the mDNS collector between start() and stop(), with two services
SpecBonjour == Init /\ [][NextBonjour]_vars

\* a result of the mDNS collector is delivered: a browser callback, or the scan() of a
\* scanNow() for all collectors
BonjourDelivers == (\E id \in AnnouncedIds : BonjourCallback(id)) \/ ScanNow("all")

\* C36: the accumulated services of the mDNS collector only grow (no step, stop() and the
\* passage of time included, removes one), scan() starts no discovery and changes nothing
\* of the collector, and every delivered result holds every service discovered so far, so
\* that each of them is in the store with lastSeen refreshed
C36_AccumulatedOnlyGrows ==
  /\ [][/\ DOMAIN discoveredNodes \subseteq DOMAIN discoveredNodes'
        /\ DOMAIN discoveredEdges \subseteq DOMAIN discoveredEdges']_vars
  /\ [][ScanNow("all") => UNCHANGED <<discoveredNodes, discoveredEdges, browsing>>]_vars
  /\ [][BonjourDelivers =>
          \A b \in DOMAIN discoveredNodes' :
            /\ b \in DOMAIN discoveredNodes \/ BonjourCallback(b)
            /\ Has(nodes', b) /\ nodes'[b].lastSeen = now'
            /\ lastObserved'[b] = now']_vars

C36_Witness ==
  /\ stopCalled
  /\ DOMAIN discoveredNodes = AnnouncedIds
  /\ discoveredNodes[BonjourId].lastSeen < discoveredNodes[OwnServiceId].lastSeen
  /\ Has(nodes, BonjourId)
  /\ nodes[BonjourId].lastSeen >= discoveredNodes[OwnServiceId].lastSeen


\* C37: at most one scan of a polled collector is in flight at any time: an interval that
\* fires, or a scanNow(), while a scan of the collector has not returned starts no second one
C37_OneScanInFlight ==
  \A c \in inflight, d \in inflight : c.scanner = d.scanner => c = d


\* C38: whenever the pipeline reports capturing = false, neither a drain interval nor the
\* enrichment interval is set
C38_IdleHasNoTimers ==
  ~isCapturing => (drainTimer = 0 /\ drainIntervals = {} /\ ~enrichmentTimer)

\* C39: whenever a tshark process that start() spawned is running and has not been sent a
\* signal, the pipeline reports capturing = true and this.proc is that process (so the exit
\* of a process stopped earlier leaves the flag and the handle of the newer capture alone)
C39_LiveCaptureIsHeld ==
  \A p \in Unsignalled : isCapturing /\ proc = p


\* the relations of the store that end at the entity
RelationsOf(id) == {e \in DOMAIN edges : edges[e].target = id \/ edges[e].source = id}

\* C40: the store holds at most one relation per entity other than the Host, every relation
\* has the Host as an endpoint, and the relation of a Link-Layer entity has the kind of the
\* scan that reported the entity last (gateway when its isGateway is set, connected_to
\* otherwise), also after the flag has changed between two scans
C40_OneRelationPerEntity ==
  /\ \A e \in DOMAIN edges :
       /\ edges[e].source = HostId
       /\ edges[e].target # HostId
  /\ \A id \in AllIds \ {HostId} : Cardinality(RelationsOf(id)) <= 1
  /\ \A id \in LanIds :
       Has(nodes, id) =>
         /\ RelationsOf(id) = {EdgeId(id)}
         /\ edges[EdgeId(id)].type = IF nodes[id].isGateway THEN "gateway" ELSE "connected_to"

C40_Witness ==
  /\ lastFull # NoPub
  /\ Has(lastFull.edges, EdgeId(LanId))
  /\ lastFull.edges[EdgeId(LanId)].type = "gateway"
  /\ Has(nodes, LanId) /\ ~nodes[LanId].isGateway
  /\ RelationsOf(LanId) = {EdgeId(LanId)}
  /\ edges[EdgeId(LanId)].type = "connected_to"
  /\ Has(edges, EdgeId(BonjourId))

====
